---- MODULE Spec2Model ----
(***************************************************************************)
(* DeFiHackLabs Incident Explorer: the incident catalog (incidents.json),  *)
(* the root-cause catalog (rootcause_data.json) and the operations that    *)
(* maintain them: update_incidents / update_rootcause (scripts/            *)
(* update_data.py), the changelog pipeline (parse_diff_and_update.py),     *)
(* merge_existing (scripts/build_rootcause_from_md.py) and the attack-type *)
(* normalizer (normalize_attack.py).                                       *)
(*                                                                         *)
(* Text is modelled by TLA+ strings handled character by character (Len,   *)
(* SubSeq, Head, Tail and \o apply to strings in TLC).  A JSON key that is *)
(* absent from an object is the value Absent (NoLost for a number).        *)
(***************************************************************************)
EXTENDS Integers, Sequences, FiniteSets, TLC

VARIABLES
  incidents,     \* persisted incident catalog (incidents.json), a sequence of records
  rootcause,     \* persisted root-cause catalog (rootcause_data.json), an ordered mapping
  rcFile,        \* rootcause_data.json on disk: "missing", "json" or "garbage"
  corpus,        \* the artifacts under source/src/test, in walk order
  overrides,     \* the mapping loaded from scripts/overrides.json
  lastOp,        \* the operation that ran last
  preIncidents,  \* history: the incident catalog before the last operation
  preRootcause,  \* history: the root-cause catalog before the last operation
  preRcFile,     \* history: rcFile before the last operation
  mergeLog,      \* history: one entry per artifact handled by the last update_incidents
  stableRuns,    \* history: runs of main() since anything else changed inputs or stores
  steps,         \* number of operations performed so far
  phrase,        \* the phrase last given to normalize_attack_type
  label,         \* the label it returned
  newData,       \* the new_data last given to merge_existing
  lossText,      \* the text last given to _parse_loss_and_currency
  lossParsed,    \* what it returned: [lost, currency]
  readme,        \* the sections of the README last searched for a file
  target,        \* the name of that file
  located,       \* the section found for it: [idx, score, contract]
  incFile,       \* incidents.json holds "json" or "garbage" (json.load rejects it)
  srcRoot,       \* source/src/test is a directory
  tracker,       \* the commit in .last_repo_main_commit, "" when the file is missing
  raised,        \* the last operation ended with an uncaught exception or exit
  batch          \* history: the blocks the last operation read in a diff

vars ==
  << incidents, rootcause, rcFile, corpus, overrides, lastOp, preIncidents,
     preRootcause, preRcFile, mergeLog, stableRuns, steps, phrase, label, newData,
     lossText, lossParsed, readme, target, located, incFile, srcRoot, tracker, raised,
     batch >>

lossVars ==
  << lossText, lossParsed >>

sectionVars ==
  << readme, target, located >>

\* The variables of the text functions, which the pipelines leave alone.
auxVars ==
  << lossVars, sectionVars >>

\* The files and directories around the pipelines, and how the last run ended.
envVars ==
  << incFile, srcRoot, tracker, raised, batch >>

-----------------------------------------------------------------------------
(* Strings, character by character                                         *)

Char(s, i) ==
  SubSeq(s, i, i)

UpperChars ==
  "ABCDEFGHIJKLMNOPQRSTUVWXYZ"

LowerChars ==
  "abcdefghijklmnopqrstuvwxyz"

\* Position of the one-character string c in alpha, 0 when it is not there.
IndexIn(alpha, c) ==
  IF \E i \in 1..Len(alpha) : Char(alpha, i) = c
  THEN CHOOSE i \in 1..Len(alpha) : Char(alpha, i) = c
  ELSE 0

IsLetter(c) ==
  IndexIn(UpperChars, c) > 0 \/ IndexIn(LowerChars, c) > 0

IsSpace(c) ==
  c \in {" ", "\t", "\n"}

LowerChar(c) ==
  IF IndexIn(UpperChars, c) > 0 THEN Char(LowerChars, IndexIn(UpperChars, c)) ELSE c

UpperChar(c) ==
  IF IndexIn(LowerChars, c) > 0 THEN Char(UpperChars, IndexIn(LowerChars, c)) ELSE c

\* str.lower()
RECURSIVE str_lower(_)
str_lower(s) ==
  IF s = "" THEN "" ELSE LowerChar(Head(s)) \o str_lower(Tail(s))

RECURSIVE str_lstrip(_)
str_lstrip(s) ==
  IF s # "" /\ IsSpace(Head(s)) THEN str_lstrip(Tail(s)) ELSE s

RECURSIVE str_rstrip(_)
str_rstrip(s) ==
  IF s # "" /\ IsSpace(Char(s, Len(s))) THEN str_rstrip(SubSeq(s, 1, Len(s) - 1)) ELSE s

\* str.strip()
str_strip(s) ==
  str_rstrip(str_lstrip(s))

\* str.title(): a letter is upper-cased when the character before it is no
\* letter and lower-cased otherwise.
RECURSIVE TitleFrom(_, _)
TitleFrom(s, afterLetter) ==
  IF s = "" THEN ""
  ELSE LET c == Head(s)
       IN (IF afterLetter THEN LowerChar(c) ELSE UpperChar(c))
            \o TitleFrom(Tail(s), IsLetter(c))

\* The mutation of str_title that leaves the string as it is.
str_title_Unchanged(s) ==
  s

str_title(s) ==
  TitleFrom(s, FALSE)

StartsWith(s, p) ==
  Len(s) >= Len(p) /\ SubSeq(s, 1, Len(p)) = p

EndsWith(s, p) ==
  Len(s) >= Len(p) /\ SubSeq(s, Len(s) - Len(p) + 1, Len(s)) = p

\* First position >= from at which lit occurs in s, 0 when there is none.
FindFrom(s, lit, from) ==
  LET hits == { i \in from..(Len(s) - Len(lit) + 1) : SubSeq(s, i, i + Len(lit) - 1) = lit }
  IN IF hits = {} THEN 0 ELSE CHOOSE i \in hits : \A j \in hits : i <= j

Contains(s, lit) ==
  FindFrom(s, lit, 1) > 0

-----------------------------------------------------------------------------
(* normalize_attack.py                                                     *)

\* The ordered pattern table.  Every pattern of the source is a chain of
\* literals joined by ".*"; a row holds the literals and the label.
ATTACK_TYPE_MAPPING ==
  <<
    <<<<"access", "control">>, "Access Control">>,
    <<<<"unauthorized">>, "Access Control">>,
    <<<<"unprotected">>, "Access Control">>,
    <<<<"privilege">>, "Access Control">>,
    <<<<"admin">>, "Access Control">>,
    <<<<"ownership">>, "Access Control">>,
    <<<<"permission">>, "Access Control">>,
    <<<<"auth">>, "Access Control">>,
    <<<<"lack", "of", "access">>, "Access Control">>,
    <<<<"insufficient", "access">>, "Access Control">>,
    <<<<"incorrect", "access">>, "Access Control">>,
    <<<<"improper", "access">>, "Access Control">>,
    <<<<"business", "logic">>, "Logic Flaw">>,
    <<<<"logic", "flaw">>, "Logic Flaw">>,
    <<<<"calculation">>, "Logic Flaw">>,
    <<<<"logic", "error">>, "Logic Flaw">>,
    <<<<"business", "rule">>, "Logic Flaw">>,
    <<<<"bad", "logic">>, "Logic Flaw">>,
    <<<<"business", "loigc">>, "Logic Flaw">>,
    <<<<"bussiness", "logic">>, "Logic Flaw">>,
    <<<<"incorrect", "logic">>, "Logic Flaw">>,
    <<<<"improper", "logic">>, "Logic Flaw">>,
    <<<<"rounding">>, "Precision">>,
    <<<<"precision">>, "Precision">>,
    <<<<"insufficient", "validation">>, "Incorrect Validation">>,
    <<<<"validation">>, "Incorrect Validation">>,
    <<<<"improper", "validation">>, "Incorrect Validation">>,
    <<<<"flash", "loan">>, "Flash Loan Attack">>,
    <<<<"flashloan">>, "Flash Loan Attack">>,
    <<<<"flash", "swap">>, "Flash Loan Attack">>,
    <<<<"loan", "attack">>, "Flash Loan Attack">>,
    <<<<"price", "manipulation">>, "Price Manipulation">>,
    <<<<"oracle", "manipulation">>, "Price Manipulation">>,
    <<<<"price", "oracle">>, "Price Manipulation">>,
    <<<<"manipulation">>, "Price Manipulation">>,
    <<<<"oracle", "attack">>, "Price Manipulation">>,
    <<<<"price", "feed">>, "Price Manipulation">>,
    <<<<"bad", "oracle">>, "Price Manipulation">>,
    <<<<"pool", "manipulation">>, "Price Manipulation">>,
    <<<<"pool", "imbalance">>, "Price Manipulation">>,
    <<<<"pair", "manipulate">>, "Price Manipulation">>,
    <<<<"reentrancy">>, "Reentrancy Attack">>,
    <<<<"re-entrancy">>, "Reentrancy Attack">>,
    <<<<"reentrant">>, "Reentrancy Attack">>,
    <<<<"read-only", "reentrancy">>, "Reentrancy Attack">>,
    <<<<"cross", "contract", "reentrancy">>, "Reentrancy Attack">>,
    <<<<"overflow">>, "Overflow">>,
    <<<<"underflow">>, "Overflow">>,
    <<<<"integer", "overflow">>, "Overflow">>,
    <<<<"integer", "underflow">>, "Overflow">>,
    <<<<"slippage">>, "Slippage Protection">>,
    <<<<"storage", "collision">>, "Storage Collision">>,
    <<<<"signature">>, "Signature Verification">>,
    <<<<"verification">>, "Signature Verification">>,
    <<<<"arbitrary", "calldata">>, "Arbitrary Calldata">>,
    <<<<"arbitrary", "call">>, "Arbitrary Calldata">>,
    <<<<"arbitrary", "yul">>, "Arbitrary Yul Calldata">>,
    <<<<"weak", "random", "mint">>, "Weak Random Mint">>,
    <<<<"arbitrary", "address">>, "Arbitrary Address Spoofing Attack">>,
    <<<<"k-verification">>, "K-Verification">>,
    <<<<"no", "slippage">>, "Slippage Protection">>,
    <<<<"lack", "slippage">>, "Slippage Protection">>,
    <<<<"phishing">>, "Social Engineering">>,
    <<<<"social">>, "Social Engineering">>,
    <<<<"scam">>, "Social Engineering">>,
    <<<<"fraud">>, "Social Engineering">>,
    <<<<"impersonation">>, "Social Engineering">>,
    <<<<"rugpull">>, "Social Engineering">>,
    <<<<"bug">>, "Implementation Bug">>,
    <<<<"error">>, "Implementation Bug">>,
    <<<<"incorrect">>, "Implementation Bug">>,
    <<<<"wrong">>, "Implementation Bug">>,
    <<<<"implementation", "flaw">>, "Implementation Bug">>,
    <<<<"coding", "error">>, "Implementation Bug">>,
    <<<<"design">>, "Protocol Design">>,
    <<<<"architecture">>, "Protocol Design">>,
    <<<<"specification">>, "Protocol Design">>,
    <<<<"design", "flaw">>, "Protocol Design">>,
    <<<<"front", "run">>, "Front-running Attack">>,
    <<<<"frontrun">>, "Front-running Attack">>,
    <<<<"mev">>, "Front-running Attack">>,
    <<<<"governance">>, "Governance Attack">>,
    <<<<"dao", "attack">>, "Governance Attack">>,
    <<<<"voting">>, "Governance Attack">>,
    <<<<"malicious", "proposal">>, "Governance Attack">>,
    <<<<"sandwich">>, "Sandwich Attack">>,
    <<<<"bridge">>, "Bridge Attack">>,
    <<<<"cross", "chain">>, "Bridge Attack">>,
    <<<<"inflation", "attack">>, "Inflation Attack">>,
    <<<<"compoundv2", "inflation">>, "Inflation Attack">>,
    <<<<"precision", "loss">>, "Precision Loss">>,
    <<<<"loss", "of", "precision">>, "Precision Loss">>,
    <<<<"self", "liquidation">>, "Self-Liquidation">>,
    <<<<"swap", "metapool">>, "Swap Metapool Attack">>,
    <<<<"private", "key">>, "Private Key Compromised">>,
    <<<<"key", "compromised">>, "Private Key Compromised">>,
    <<<<"token", "incompatible">>, "Token Incompatible">>,
    <<<<"incompatible", "token">>, "Token Incompatible">>,
    <<<<"protocol", "token", "incompatible">>, "Protocol Token Incompatible">>,
    <<<<"deflationary", "token">>, "Deflationary Token Incompatible">>,
    <<<<"weak", "rng">>, "Weak RNG">>,
    <<<<"bad", "randomness">>, "Weak RNG">>,
    <<<<"predicting", "random">>, "Weak RNG">>,
    <<<<"fake", "market">>, "Fake Market">>
  >>

\* re.search(pattern, s) for a pattern lit1.*lit2...: the literals occur in s
\* in this order without overlapping (s holds no line break).
RECURSIVE SearchLits(_, _, _)
SearchLits(lits, s, from) ==
  IF lits = << >> THEN TRUE
  ELSE LET at == FindFrom(s, Head(lits), from)
       IN at > 0 /\ SearchLits(Tail(lits), s, at + Len(Head(lits)))

\* re.search of a pattern lit1.*lit2...: the phrases are single lines, on
\* which "." matches every character.
re_search(lits, s) ==
  SearchLits(lits, s, 1)

\* re.sub(r"^(attack|exploit|hack):?\s+", "", s)
DismissivePrefixes ==
  << "attack", "exploit", "hack" >>

StripDismissivePrefix(s) ==
  LET heads == { i \in 1..Len(DismissivePrefixes) : StartsWith(s, DismissivePrefixes[i]) }
  IN IF heads = {} THEN s
     ELSE LET w     == DismissivePrefixes[CHOOSE i \in heads : TRUE]
              rest  == SubSeq(s, Len(w) + 1, Len(s))
              rest2 == IF StartsWith(rest, ":") THEN Tail(rest) ELSE rest
          IN IF rest2 # "" /\ IsSpace(Head(rest2)) THEN str_lstrip(rest2) ELSE s

\* The mutation of FirstMatch in which the last matching row wins.
FirstMatch_Last(s) ==
  LET hits == { i \in 1..Len(ATTACK_TYPE_MAPPING) : re_search(ATTACK_TYPE_MAPPING[i][1], s) }
  IN IF hits = {} THEN 0 ELSE CHOOSE i \in hits : \A j \in hits : i >= j

\* Index of the first row of the table whose pattern matches s, 0 if none.
FirstMatch(s) ==
  LET hits == { i \in 1..Len(ATTACK_TYPE_MAPPING) : re_search(ATTACK_TYPE_MAPPING[i][1], s) }
  IN IF hits = {} THEN 0 ELSE CHOOSE i \in hits : \A j \in hits : i <= j

normalize_attack_type(attack_type) ==
  IF attack_type = "" THEN "Unknown"
  ELSE LET s == StripDismissivePrefix(str_strip(str_lower(attack_type)))
           i == FirstMatch(s)
       IN IF i > 0 THEN ATTACK_TYPE_MAPPING[i][2] ELSE str_title(s)

-----------------------------------------------------------------------------
(* More string helpers used by update_data.py                              *)

\* Printable ASCII in code-point order (Python compares strings by code
\* point), without the double quote and the backquote, which a TLA+ string
\* cannot hold and which no compared string of the model contains.
Ascii ==
  " !#$%&'()*+,-./0123456789:;<=>?@ABCDEFGHIJKLMNOPQRSTUVWXYZ[\\]^_abcdefghijklmnopqrstuvwxyz{|}~"

\* ord(c), tabulated once
AsciiOrd ==
  [ c \in { Char(Ascii, i) : i \in 1..Len(Ascii) } |-> IndexIn(Ascii, c) ]

Ord(c) ==
  IF c \in DOMAIN AsciiOrd THEN AsciiOrd[c] ELSE 0

IsDigit(c) ==
  IndexIn("0123456789", c) > 0

\* a < b for Python strings
RECURSIVE StrLess(_, _)
StrLess(a, b) ==
  IF b = "" THEN FALSE
  ELSE IF a = "" THEN TRUE
  ELSE IF Head(a) = Head(b) THEN StrLess(Tail(a), Tail(b))
  ELSE Ord(Head(a)) < Ord(Head(b))

\* str.replace(old, new), old not empty
RECURSIVE str_replace(_, _, _)
str_replace(s, old, new) ==
  IF s = "" THEN ""
  ELSE IF StartsWith(s, old)
       THEN new \o str_replace(SubSeq(s, Len(old) + 1, Len(s)), old, new)
       ELSE Head(s) \o str_replace(Tail(s), old, new)

\* str.lstrip("./")
RECURSIVE lstrip_dot_slash(_)
lstrip_dot_slash(s) ==
  IF s # "" /\ Head(s) \in {".", "/"} THEN lstrip_dot_slash(Tail(s)) ELSE s

AllDigits(s) ==
  \A i \in 1..Len(s) : IsDigit(Char(s, i))

-----------------------------------------------------------------------------
(* The parsers of an artifact's content (update_data.py, lines 58-146)     *)

\* The character of s at position i, "" past either end.
CharAt(s, i) ==
  IF i >= 1 /\ i <= Len(s) THEN SubSeq(s, i, i) ELSE ""

RECURSIVE str_upper(_)
str_upper(s) ==
  IF s = "" THEN "" ELSE UpperChar(Head(s)) \o str_upper(Tail(s))

\* \s* from position i: the position of the first character that is not
\* white space, Len(s) + 1 when there is none.
RECURSIVE SkipSpaces(_, _)
SkipSpaces(s, i) ==
  IF i <= Len(s) /\ IsSpace(CharAt(s, i)) THEN SkipSpaces(s, i + 1) ELSE i

\* _normalize_currency
normalize_currency(token) ==
  LET t == str_strip(str_replace(str_replace(str_upper(token), "US$", "USD"), "$", "USD"))
  IN IF t \in { "USD$", "US D", "US", "U S D" } THEN "USD" ELSE t

\* \s*[:\-]\s*~?\s*\$?\s*[0-9] from position i, which follows "Lost" or
\* "Loss": the position of the digit, 0 when the text does not continue so.
LossTail(s, i) ==
  LET a == SkipSpaces(s, i)
      b == SkipSpaces(s, a + 1)
      c == IF CharAt(s, b) = "~" THEN b + 1 ELSE b
      d == SkipSpaces(s, c)
      e == IF CharAt(s, d) = "$" THEN d + 1 ELSE d
      f == SkipSpaces(s, e)
  IN IF CharAt(s, a) \in { ":", "-" } /\ IsDigit(CharAt(s, f)) THEN f ELSE 0

\* The position of the first digit after the first "Lost" or "Loss" (in any
\* letter case) that LossTail follows, 0 when there is none.  An optional
\* "Total\s+" before the word does not change which word that is.
LossDigitAt(s) ==
  LET hits == { p \in 1..(Len(s) - 3) :
                  /\ str_lower(SubSeq(s, p, p + 3)) \in { "loss", "lost" }
                  /\ LossTail(s, p + 4) > 0 }
  IN IF hits = {} THEN 0
     ELSE LossTail(s, (CHOOSE p \in hits : \A q \in hits : p <= q) + 4)

\* [A-Za-z$]{0,6} from position i: the characters it takes
RECURSIVE CurrencyToken(_, _, _)
CurrencyToken(s, i, room) ==
  IF room > 0 /\ (IsLetter(CharAt(s, i)) \/ CharAt(s, i) = "$")
  THEN CharAt(s, i) \o CurrencyToken(s, i + 1, room - 1)
  ELSE ""

Magnitude(suf) ==
  IF suf = "K" THEN 1000
  ELSE IF suf = "M" THEN 1000000
  ELSE IF suf = "B" THEN 1000000000
  ELSE 1

\* _parse_loss_and_currency(text), lines 65-109.  The number group of the
\* pattern, ([0-9][0-9,\.]*?), is lazy and everything after it is optional,
\* so the match ends the number after its first digit: the suffix and the
\* currency are read right after that digit.  The result is a whole number.
parse_loss_and_currency(text) ==
  LET f == LossDigitAt(text)
  IN IF text = "" \/ f = 0 THEN [ lost |-> 0, currency |-> "USD" ]
     ELSE LET g   == SkipSpaces(text, f + 1)
              suf == IF CharAt(text, g) # "" /\ IndexIn("KMBkmb", CharAt(text, g)) > 0
                     THEN CharAt(text, g) ELSE ""
              h   == SkipSpaces(text, g + Len(suf))
              tok == CurrencyToken(text, h, 6)
              cur == normalize_currency(IF tok = "" THEN "USD" ELSE tok)
          IN [ lost     |-> (IndexIn("0123456789", CharAt(text, f)) - 1)
                              * Magnitude(str_upper(suf)),
               currency |-> IF cur = "" THEN "USD" ELSE cur ]

\* The text from position i to the end of its line
RECURSIVE LineFrom(_, _)
LineFrom(s, i) ==
  IF i > Len(s) \/ CharAt(s, i) = "\n" THEN "" ELSE CharAt(s, i) \o LineFrom(s, i + 1)

\* _parse_type(text), lines 112-116: what follows the first "@Type" and a
\* colon or dash, to the end of the line, stripped.
parse_type(text) ==
  LET hits == { p \in 1..(Len(text) - 4) :
                  /\ str_lower(SubSeq(text, p, p + 4)) = "@type"
                  /\ CharAt(text, SkipSpaces(text, p + 5)) \in { ":", "-" } }
  IN IF hits = {} THEN ""
     ELSE LET p == CHOOSE x \in hits : \A y \in hits : x <= y
          IN str_strip(LineFrom(text, SkipSpaces(text, SkipSpaces(text, p + 5) + 1)))

\* The double quote of the sources, which the texts of the model write as an
\* apostrophe.
Quote ==
  "'"

\* [a-zA-Z0-9_\-]+ from position i
RECURSIVE NetworkName(_, _)
NetworkName(s, i) ==
  LET c == CharAt(s, i)
  IN IF c # "" /\ (IsLetter(c) \/ IsDigit(c) \/ c \in { "_", "-" })
     THEN c \o NetworkName(s, i + 1) ELSE ""

\* The mapping of lines 125-144
ChainNames ==
  << << "mainnet", "Ethereum" >>, << "eth_mainnet", "Ethereum" >>,
     << "ethereum", "Ethereum" >>, << "bsc", "BSC" >>, << "bnb", "BSC" >>,
     << "arbitrum", "Arbitrum" >>, << "arb", "Arbitrum" >>, << "base", "Base" >>,
     << "polygon", "Polygon" >>, << "matic", "Polygon" >>, << "optimism", "Optimism" >>,
     << "op", "Optimism" >>, << "fantom", "Fantom" >>, << "avalanche", "Avalanche" >>,
     << "avax", "Avalanche" >>, << "scroll", "Scroll" >>, << "blast", "Blast" >>,
     << "linea", "Linea" >> >>

\* str.capitalize()
str_capitalize(s) ==
  IF s = "" THEN "" ELSE UpperChar(Head(s)) \o str_lower(Tail(s))

\* _parse_chain(text), lines 119-146
parse_chain(text) ==
  LET open == "createSelectFork("
      hits == { p \in 1..(Len(text) - Len(open) + 1) :
                  /\ SubSeq(text, p, p + Len(open) - 1) = open
                  /\ LET q == SkipSpaces(text, p + Len(open))
                         n == NetworkName(text, q + 1)
                     IN /\ CharAt(text, q) = Quote
                        /\ n # ""
                        /\ CharAt(text, q + 1 + Len(n)) = Quote }
  IN IF hits = {} THEN "Unknown"
     ELSE LET p    == CHOOSE x \in hits : \A y \in hits : x <= y
              net  == str_lower(NetworkName(text, SkipSpaces(text, p + Len(open)) + 1))
              rows == { i \in 1..Len(ChainNames) : ChainNames[i][1] = net }
          IN IF rows = {} THEN str_capitalize(net)
             ELSE ChainNames[CHOOSE i \in rows : TRUE][2]

-----------------------------------------------------------------------------
(* Values of the JSON documents                                            *)

\* A key that the JSON object does not hold (dict.get gives None).
Absent ==
  "<absent>"

\* A number that is not there (None).
NoLost ==
  0 - 1

\* overrides.get(rel) when rel is no key of the override file.
NoOverride ==
  [ date |-> Absent, name |-> Absent, type |-> Absent, Lost |-> NoLost,
    lossType |-> Absent, loss_type |-> Absent, chain |-> Absent,
    links |-> << >>, references |-> << >> ]

Truthy(v) ==
  v # Absent /\ v # ""

GITHUB_BASE ==
  "https://github.com/SunWeb3Sec/DeFiHackLabs/blob/main/"

SRC_REPO ==
  "source/src/test"

\* dict.get(key, default) on an override entry
OvGet(v, default) ==
  IF v = Absent THEN default ELSE v

OvGetLost(v, default) ==
  IF v = NoLost THEN default ELSE v

overrides_get(ovs, rel) ==
  IF rel \in DOMAIN ovs THEN ovs[rel] ELSE NoOverride

\* "if ov:" - the entry exists and holds at least one key
OvPresent(ov) ==
  ov # NoOverride

-----------------------------------------------------------------------------
(* update_incidents: one artifact of the walk                              *)

\* re.search(r"(\d{4})-(\d{2})", root): << year, month >> of the leftmost
\* match, << >> when there is none.
FolderYM(root) ==
  LET hits == { i \in 1..(Len(root) - 6) :
                  /\ AllDigits(SubSeq(root, i, i + 3))
                  /\ Char(root, i + 4) = "-"
                  /\ AllDigits(SubSeq(root, i + 5, i + 6)) }
  IN IF hits = {} THEN << >>
     ELSE LET i == CHOOSE k \in hits : \A j \in hits : k <= j
          IN << SubSeq(root, i, i + 3), SubSeq(root, i + 5, i + 6) >>

\* _norm_start_ym: the digits of s, cut to six; "" stands for None.
RECURSIVE DigitsOf(_)
DigitsOf(s) ==
  IF s = "" THEN ""
  ELSE (IF IsDigit(Head(s)) THEN Head(s) ELSE "") \o DigitsOf(Tail(s))

norm_start_ym(s) ==
  IF s = "" THEN ""
  ELSE LET digits == DigitsOf(s)
       IN IF Len(digits) >= 6 THEN SubSeq(digits, 1, 6) ELSE ""

\* The walk skips the artifact (lines 183-188); folder_ym is "" for None.
SkippedByStart(folder_ym, start_ym) ==
  /\ start_ym # ""
  /\ \/ folder_ym = ""
     \/ StrLess(folder_ym, start_ym)

pretty_default_name(filename) ==
  str_replace(str_replace(filename, "_exp.sol", ""), "_", " ")

\* The contract path taken from the narrative document (lines 556-565):
\* kept only under src/test/, a bare file name is put under the folder.
ContractFromReadme(rel, rd_contract, ym) ==
  IF rd_contract = "" THEN rel
  ELSE LET cpath == lstrip_dot_slash(str_replace(rd_contract, "\\", "/"))
       IN IF StartsWith(cpath, "src/test/") THEN cpath
          ELSE IF /\ ym # << >>
                  /\ EndsWith(str_lower(cpath), "_exp.sol")
                  /\ ~ Contains(cpath, "/")
               THEN "src/test/" \o ym[1] \o "-" \o ym[2] \o "/" \o cpath
               ELSE rel

\* The candidate record of artifact a before the overrides (lines 175-565).
\* a.text holds what _parse_loss_and_currency, _parse_type and _parse_chain
\* return on the artifact's content, a.rd what the section locator and the
\* field extractor leave in rd_*_final ("" and NoLost stand for None).
ParsedCandidate(a) ==
  LET ym   == FolderYM(a.root)
      rel0 == str_replace(str_replace(a.root \o "/" \o a.f, "\\", "/"), "source/", "")
  IN [ folder_ym |-> IF ym # << >> THEN ym[1] \o ym[2] ELSE "",
       date      |-> IF a.rd.date # "" THEN a.rd.date
                     ELSE IF ym # << >> THEN ym[1] \o ym[2] \o "01" ELSE "00000000",
       name      |-> IF a.rd.name # "" THEN a.rd.name ELSE str_replace(a.f, "_exp.sol", ""),
       type      |-> IF a.rd.type # "" THEN a.rd.type ELSE a.text.type,
       lost      |-> IF a.rd.lost # NoLost THEN a.rd.lost ELSE a.text.lost,
       loss_type |-> IF a.rd.loss_type # "" THEN a.rd.loss_type ELSE a.text.loss_type,
       chain     |-> a.text.chain,
       rel       |-> ContractFromReadme(rel0, a.rd.contract, ym) ]

\* Lines 570-582: the override entry of the candidate's path.
ApplyOverride(c, ov) ==
  IF ~ OvPresent(ov) THEN c
  ELSE [ c EXCEPT !.date      = OvGet(ov.date, c.date),
                  !.name      = OvGet(ov.name, c.name),
                  !.type      = OvGet(ov.type, c.type),
                  !.lost      = OvGetLost(ov.Lost, c.lost),
                  !.loss_type = OvGet(ov.lossType, OvGet(ov.loss_type, c.loss_type)),
                  !.chain     = OvGet(ov.chain, c.chain) ]

Candidate(parsed, ovs) ==
  ApplyOverride(parsed, overrides_get(ovs, parsed.rel))

\* MergeOnto with the type written whatever it holds.
MergeOnto_TypeAlways(item, c) ==
  [ item EXCEPT !.date     = IF c.date # "" THEN c.date ELSE @,
                !.name     = IF c.name # "" THEN c.name ELSE @,
                !.type     = c.type,
                !.Lost     = IF c.lost # 0 THEN c.lost ELSE @,
                !.lossType = IF c.loss_type # "" THEN c.loss_type ELSE @,
                !.chain    = IF c.chain # "" THEN c.chain ELSE @ ]

\* Lines 586-600: merge the candidate onto the existing entry.
MergeOnto(item, c) ==
  [ item EXCEPT !.date     = IF c.date # "" THEN c.date ELSE @,
                !.name     = IF c.name # "" THEN c.name ELSE @,
                !.type     = IF c.type # "" THEN c.type ELSE @,
                !.Lost     = IF c.lost # 0 THEN c.lost ELSE @,
                !.lossType = IF c.loss_type # "" THEN c.loss_type ELSE @,
                !.chain    = IF c.chain # "" THEN c.chain ELSE @ ]

\* Lines 602-612: the fresh entry of a candidate.
FreshEntry(a, c) ==
  [ date     |-> c.date,
    name     |-> IF c.name # "" THEN c.name ELSE pretty_default_name(a.f),
    type     |-> c.type,
    Lost     |-> c.lost,
    lossType |-> c.loss_type,
    Contract |-> c.rel,
    chain    |-> IF c.chain # "" THEN c.chain ELSE Absent ]

-----------------------------------------------------------------------------
(* The README section of an artifact (update_data.py, lines 234-279)       *)

\* lit stands in s at position i
At(s, lit, i) ==
  i >= 1 /\ i + Len(lit) - 1 <= Len(s) /\ SubSeq(s, i, i + Len(lit) - 1) = lit

\* \S* from position i: the position after the run of characters that are
\* not white space.
RECURSIVE NonSpaceEnd(_, _)
NonSpaceEnd(s, i) ==
  IF i <= Len(s) /\ ~ IsSpace(CharAt(s, i)) THEN NonSpaceEnd(s, i + 1) ELSE i

SetMax(S) ==
  CHOOSE x \in S : \A y \in S : y <= x

SetMin(S) ==
  CHOOSE x \in S : \A y \in S : x <= y

\* (\S+_exp\.sol) at position r of the lower-cased text sl: the position of
\* its last character, 0 when it does not match.  \S+ is greedy, so the
\* token ends with the last "_exp.sol" of the run.
ExpSolEnd(sl, r) ==
  LET e    == NonSpaceEnd(sl, r)
      hits == { k \in (r + 1)..(e - 8) : At(sl, "_exp.sol", k) }
  IN IF hits = {} THEN 0 ELSE SetMax(hits) + 7

\* .*--contracts\s+(\S+_exp\.sol) from position i of sl: the first and last
\* position of the group, << 0, 0 >> when it does not match.  The greedy .*
\* stays on the line and stops before the last "--contracts" that the rest
\* of the pattern follows.
ForgeTail(sl, i) ==
  LET eol  == IF FindFrom(sl, "\n", i) = 0 THEN Len(sl) + 1 ELSE FindFrom(sl, "\n", i)
      ok(q) == /\ At(sl, "--contracts", q)
               /\ IsSpace(CharAt(sl, q + 11))
               /\ ExpSolEnd(sl, SkipSpaces(sl, q + 11)) > 0
      hits == { q \in i..(eol - 1) : ok(q) }
  IN IF hits = {} THEN << 0, 0 >>
     ELSE LET r == SkipSpaces(sl, SetMax(hits) + 11)
          IN << r, ExpSolEnd(sl, r) >>

\* re.search(r"forge\s+test.*--contracts\s+(\S+_exp\.sol)", s, re.IGNORECASE)
\* followed by group(1).lstrip("./"); "" when there is no match.
ForgeContract(s) ==
  LET sl == str_lower(s)
      tail(p) == LET t == SkipSpaces(sl, p + 5)
                 IN IF At(sl, "forge", p) /\ t > p + 5 /\ At(sl, "test", t)
                    THEN ForgeTail(sl, t + 4) ELSE << 0, 0 >>
      hits == { p \in 1..Len(sl) : tail(p)[1] > 0 }
  IN IF hits = {} THEN ""
     ELSE LET g == tail(SetMin(hits))
          IN lstrip_dot_slash(SubSeq(s, g[1], g[2]))

\* (src/test/[^\)]+)\) at position u of sl, where "(" stands: the position
\* of the closing parenthesis, 0 when it does not match.
SrcTestClose(sl, u) ==
  LET c == FindFrom(sl, ")", u + 10)
  IN IF At(sl, "(src/test/", u) /\ c > u + 10 THEN c ELSE 0

\* re.search(r"\[([^\]]+_exp\.sol)\]\((src/test/[^\)]+)\)", s, re.IGNORECASE)
\* and its group(2); "" when there is no match.
MdLinkContract(s) ==
  LET sl == str_lower(s)
      close(p) == FindFrom(sl, "]", p + 1)
      ok(p) == /\ At(sl, "[", p)
               /\ close(p) >= p + 10
               /\ At(sl, "_exp.sol", close(p) - 8)
               /\ SrcTestClose(sl, close(p) + 1) > 0
      hits == { p \in 1..Len(sl) : ok(p) }
  IN IF hits = {} THEN ""
     ELSE LET b == close(SetMin(hits))
          IN SubSeq(s, b + 2, SrcTestClose(sl, b + 1) - 1)

\* re.search(r"####?\s*Contract[\s\S]{0,80}?\((src/test/[^\)]+)\)", s,
\* re.IGNORECASE) and its group(1); "" when there is no match.  The lazy
\* {0,80}? stops at the first "(src/test/" that closes.
ContractBlock(s) ==
  LET sl == str_lower(s)
      word(p) == LET a == SkipSpaces(sl, p + 3)
                     b == SkipSpaces(sl, p + 4)
                 IN IF At(sl, "contract", a) THEN a
                    ELSE IF CharAt(sl, p + 3) = "#" /\ At(sl, "contract", b) THEN b
                    ELSE 0
      opens(p) == { u \in (word(p) + 8)..(word(p) + 88) : SrcTestClose(sl, u) > 0 }
      ok(p) == At(sl, "###", p) /\ word(p) > 0 /\ opens(p) # {}
      hits == { p \in 1..Len(sl) : ok(p) }
  IN IF hits = {} THEN ""
     ELSE LET u == SetMin(opens(SetMin(hits)))
          IN SubSeq(s, u + 1, SrcTestClose(sl, u) - 1)

\* The contract reference of a section: the contract block, else the
\* markdown link, else the forge line; "" for None.
sec_contract(s) ==
  IF ContractBlock(s) # "" THEN ContractBlock(s)
  ELSE IF MdLinkContract(s) # "" THEN MdLinkContract(s)
  ELSE ForgeContract(s)

\* The section mentions the file's name or its path under source/.
MentionsFile(s, f, rel) ==
  Contains(str_lower(s), str_lower(f)) \/ Contains(str_lower(s), str_lower(rel))

\* The section mentions the display name, with underscores or with spaces.
MentionsName(s, name) ==
  \/ Contains(str_lower(s), str_lower(name))
  \/ Contains(str_lower(s), str_replace(str_lower(name), "_", " "))

\* The relevance score of a section for the file f at rel named name
SectionScore(s, f, rel, name) ==
  IF ForgeContract(s) # "" THEN 3
  ELSE IF MdLinkContract(s) # "" \/ ContractBlock(s) # "" \/ MentionsFile(s, f, rel) THEN 2
  ELSE IF MentionsName(s, name) THEN 1
  ELSE 0

\* A section may become the best one
Qualifies(s, f, rel) ==
  MentionsFile(s, f, rel) \/ sec_contract(s) # ""

NoSection ==
  [ idx |-> -1, score |-> -1, contract |-> "" ]

\* The loop over the sections from the i-th one on: best_idx (counted from
\* 0), best_score and best_contract.
RECURSIVE BestSection(_, _, _, _, _, _)
BestSection(sections, i, best, f, rel, name) ==
  IF i > Len(sections) THEN best
  ELSE LET s == sections[i]
           score == SectionScore(s, f, rel, name)
       IN BestSection(sections, i + 1,
            IF score > best.score /\ Qualifies(s, f, rel)
            THEN [ idx |-> i - 1, score |-> score, contract |-> sec_contract(s) ]
            ELSE best,
            f, rel, name)

\* The section the README parsing reads for the file, NoSection when the
\* section parsing is not used.
locate_section(sections, f, rel) ==
  LET best == BestSection(sections, 1, NoSection, f, rel, pretty_default_name(f))
  IN IF best.idx >= 0 /\ best.score > 0 THEN best ELSE NoSection

-----------------------------------------------------------------------------
(* The artifacts of the corpus                                             *)

NoReadme ==
  [ name |-> "", date |-> "", type |-> "", lost |-> NoLost, loss_type |-> "", contract |-> "" ]

\* Lines 186-203: what the parsers read in the content of a file.
TextOf(content) ==
  [ type      |-> parse_type(content),
    lost      |-> parse_loss_and_currency(content).lost,
    loss_type |-> parse_loss_and_currency(content).currency,
    chain     |-> parse_chain(content) ]

\* The content of src/test/2025-07/foo_exp.sol
ContentFoo ==
  "// @Type: Price Manipulation\n// Total Lost: 1.2M USD\nvm.createSelectFork(" \o Quote
    \o "arbitrum" \o Quote \o ");"

\* The content of src/test/2025-08/foo_exp.sol
ContentFoo8 ==
  "// Total Lost : 1234 ETH\nvm.createSelectFork(" \o Quote \o "mainnet" \o Quote \o ");"

\* The content of bar_exp.sol and of baz_exp.sol: no key line at all
ContentPlain ==
  "contract Bar {}"

\* src/test/2025-07/foo_exp.sol; the folder has no README.  The texts of the
\* artifacts are TextOf of their contents, written out.
ArtFoo ==
  [ root |-> "source/src/test/2025-07", f |-> "foo_exp.sol",
    text |-> [ type |-> "Price Manipulation", lost |-> 1, loss_type |-> "USD",
               chain |-> "Arbitrum" ],
    rd |-> NoReadme ]

\* src/test/2025-07/bar_exp.sol: no key line in the file, no README.
ArtBar ==
  [ root |-> "source/src/test/2025-07", f |-> "bar_exp.sol",
    text |-> [ type |-> "", lost |-> 0, loss_type |-> "USD", chain |-> "Unknown" ],
    rd |-> NoReadme ]

\* src/test/2025-06/baz_exp.sol: the README of its folder has one section,
\* which names baz_exp.sol under the header "20250709 Foo Protocol - Flash
\* Loan" and holds the forge invocation of ./src/test/2025-07/foo_exp.sol.
ArtBaz ==
  [ root |-> "source/src/test/2025-06", f |-> "baz_exp.sol",
    text |-> [ type |-> "", lost |-> 0, loss_type |-> "USD", chain |-> "Unknown" ],
    rd |-> [ name |-> "Foo Protocol", date |-> "20250709", type |-> "Flash Loan",
             lost |-> NoLost, loss_type |-> "", contract |-> "./src/test/2025-07/foo_exp.sol" ] ]

\* src/test/2025-08/foo_exp.sol, and a README section that names
\* foo_exp.sol with the header "20250815 foo - Reentrancy" and the line
\* "### Lost: 0".
ArtFoo8 ==
  [ root |-> "source/src/test/2025-08", f |-> "foo_exp.sol",
    text |-> [ type |-> "", lost |-> 1, loss_type |-> "USD", chain |-> "Ethereum" ],
    rd |-> [ name |-> "foo", date |-> "20250815", type |-> "Reentrancy",
             lost |-> 0, loss_type |-> "USD", contract |-> "" ] ]

\* The artifacts in the order os.walk yields them.
AllArtifacts ==
  << ArtBar, ArtBaz, ArtFoo, ArtFoo8 >>

\* The texts written out in the artifacts are what the parsers read in the
\* contents.
TextsAsParsed ==
  /\ ArtFoo.text = TextOf(ContentFoo)
  /\ ArtFoo8.text = TextOf(ContentFoo8)
  /\ ArtBar.text = TextOf(ContentPlain)
  /\ ArtBaz.text = TextOf(ContentPlain)

\* What lines 175-565 make of each artifact: computed once per artifact,
\* since the content of an artifact does not change between runs.
ParsedTable ==
  [ i \in 1..Len(AllArtifacts) |-> ParsedCandidate(AllArtifacts[i]) ]

ParsedOf(a) ==
  ParsedTable[CHOOSE i \in 1..Len(AllArtifacts) : AllArtifacts[i] = a]

-----------------------------------------------------------------------------
(* update_incidents: the walk, the merge and the final order               *)

\* existing_contracts (lines 160-169): the paths of the loaded catalog.
ExistingContracts(loaded) ==
  { loaded[i].Contract : i \in { j \in 1..Len(loaded) : Truthy(loaded[j].Contract) } }

\* existing_by_contract[rel]: the last loaded entry with this path.
ExistingIndex(loaded, rel) ==
  CHOOSE i \in 1..Len(loaded) :
    /\ loaded[i].Contract = rel
    /\ \A j \in 1..Len(loaded) : loaded[j].Contract = rel => j <= i

\* The walk of lines 171-613 over the artifacts arts.  loaded is the catalog
\* as read at the start (existing_contracts is not extended by the walk);
\* acc holds the list so far and one log entry per artifact handled.
RECURSIVE WalkCorpus(_, _, _, _, _)
WalkCorpus(arts, acc, loaded, ovs, start_ym) ==
  IF arts = << >> THEN acc
  ELSE LET a      == Head(arts)
           parsed == ParsedOf(a)
       IN IF SkippedByStart(parsed.folder_ym, start_ym)
          THEN WalkCorpus(Tail(arts), acc, loaded, ovs, start_ym)
          ELSE LET c      == Candidate(parsed, ovs)
                   ov     == overrides_get(ovs, c.rel)
               IN IF c.rel \in ExistingContracts(loaded)
                  THEN LET i     == ExistingIndex(loaded, c.rel)
                           after == MergeOnto(acc.incidents[i], c)
                       IN WalkCorpus(Tail(arts),
                            [ incidents |-> [ acc.incidents EXCEPT ![i] = after ],
                              log |-> Append(acc.log,
                                        [ art |-> a, parsed |-> parsed, cand |-> c, ov |-> ov,
                                          fresh |-> FALSE, before |-> acc.incidents[i],
                                          after |-> after ]) ],
                            loaded, ovs, start_ym)
                  ELSE LET new_item == FreshEntry(a, c)
                       IN WalkCorpus(Tail(arts),
                            [ incidents |-> Append(acc.incidents, new_item),
                              log |-> Append(acc.log,
                                        [ art |-> a, parsed |-> parsed, cand |-> c, ov |-> ov,
                                          fresh |-> TRUE, before |-> new_item,
                                          after |-> new_item ]) ],
                            loaded, ovs, start_ym)

\* incidents.sort(key=lambda x: x["date"], reverse=True): stable, equal
\* dates keep their order.
RECURSIVE InsertDesc(_, _)
InsertDesc(sorted, x) ==
  IF sorted = << >> THEN << x >>
  ELSE IF StrLess(Head(sorted).date, x.date)
       THEN << x >> \o sorted
       ELSE << Head(sorted) >> \o InsertDesc(Tail(sorted), x)

RECURSIVE SortByDateDesc(_)
SortByDateDesc(lst) ==
  IF lst = << >> THEN << >>
  ELSE InsertDesc(SortByDateDesc(SubSeq(lst, 1, Len(lst) - 1)), lst[Len(lst)])

\* FinalOrder with the sort left out.
FinalOrder_Unsorted(lst, preserve_order) ==
  lst

\* Lines 615-616
FinalOrder(lst, preserve_order) ==
  IF preserve_order THEN lst ELSE SortByDateDesc(lst)

\* update_incidents that starts from an empty list instead of the catalog.
update_incidents_Rebuild(loaded, arts, ovs, start_ym, preserve_order) ==
  LET walked == WalkCorpus(arts, [ incidents |-> << >>, log |-> << >> ], << >>, ovs,
                           norm_start_ym(start_ym))
  IN [ incidents |-> FinalOrder(walked.incidents, preserve_order), log |-> walked.log ]

\* update_incidents(start_ym, preserve_order) on the catalog loaded, the
\* corpus arts and the override mapping ovs: the list written and returned,
\* and the log of the walk.
update_incidents(loaded, arts, ovs, start_ym, preserve_order) ==
  LET walked == WalkCorpus(arts, [ incidents |-> loaded, log |-> << >> ], loaded, ovs,
                           norm_start_ym(start_ym))
  IN [ incidents |-> FinalOrder(walked.incidents, preserve_order), log |-> walked.log ]

-----------------------------------------------------------------------------
(* update_rootcause                                                        *)

\* rootcause_data.json is a JSON object; Python keeps its keys in insertion
\* order, so it is a sequence of [k, v] pairs with distinct keys.
DictKeys(d) ==
  { d[i].k : i \in 1..Len(d) }

DictIndex(d, key) ==
  CHOOSE i \in 1..Len(d) : d[i].k = key

DictGet(d, key) ==
  d[DictIndex(d, key)].v

\* d[key] = v: in place when the key is there, appended otherwise
DictSet(d, key, v) ==
  IF key \in DictKeys(d)
  THEN [ d EXCEPT ![DictIndex(d, key)] = [ k |-> key, v |-> v ] ]
  ELSE Append(d, [ k |-> key, v |-> v ])

\* d.pop(key): d without the key
DictPop(d, key) ==
  LET i == DictIndex(d, key)
  IN SubSeq(d, 1, i - 1) \o SubSeq(d, i + 1, Len(d))

\* _find_key_by_contract: the first key whose entry holds this Contract,
\* Absent (None) when there is none.
find_key_by_contract(data, url) ==
  LET hits == { i \in 1..Len(data) : data[i].v.Contract = url }
  IN IF hits = {} THEN Absent
     ELSE data[CHOOSE i \in hits : \A j \in hits : i <= j].k

\* "YYYYMMDD" as "YYYY-MM-DD" (lines 652 and 667)
HyphenDate(d) ==
  SubSeq(d, 1, 4) \o "-" \o SubSeq(d, 5, 6) \o "-" \o SubSeq(d, 7, Len(d))

\* str(float): the catalog's losses are whole numbers below 1e16
FloatStr(n) ==
  ToString(n) \o ".0"

\* Lines 650-657: the entry made for an incident that has none.
NewRootcauseEntry(inc, contract_url) ==
  [ type      |-> inc.type,
    date      |-> IF Len(inc.date) = 8 THEN HyphenDate(inc.date) ELSE "",
    rootCause |-> "",
    images    |-> << >>,
    Lost      |-> FloatStr(inc.Lost) \o " " \o inc.lossType,
    Contract  |-> contract_url,
    POC       |-> Absent ]

\* "\n".join(f"- {u}" for u in links)
RECURSIVE JoinRefs(_)
JoinRefs(links) ==
  IF links = << >> THEN ""
  ELSE IF Len(links) = 1 THEN "- " \o links[1]
  ELSE "- " \o Head(links) \o "\n" \o JoinRefs(Tail(links))

\* Lines 662-679: the override's type, date and links on the entry.
ApplyRootcauseOverride(entry, ov) ==
  LET links == IF ov.links # << >> THEN ov.links ELSE ov.references
      refs  == JoinRefs(links)
      e1    == IF Truthy(ov.type) THEN [ entry EXCEPT !.type = ov.type ] ELSE entry
      e2    == IF Truthy(ov.date) /\ Len(ov.date) = 8
               THEN [ e1 EXCEPT !.date = HyphenDate(ov.date) ] ELSE e1
  IN IF refs = "" THEN e2
     ELSE IF Truthy(e2.rootCause)
          THEN [ e2 EXCEPT !.rootCause =
                   str_rstrip(e2.rootCause) \o "\n\n" \o "Link reference(s):\n" \o refs ]
          ELSE [ e2 EXCEPT !.rootCause = "Link reference(s):\n" \o refs ]

\* Lines 644-647: move the entry found by contract URL to the display name.
MigrateKey(data, existing_key, name) ==
  DictSet(DictPop(data, existing_key), name, DictGet(data, existing_key))

\* One turn of the loop of lines 639-679.
RootcauseStep(st, inc, ovs) ==
  LET name         == inc.name
      contract_url == GITHUB_BASE \o inc.Contract
      existing_key == find_key_by_contract(st.data, contract_url)
      migrate      == Truthy(existing_key) /\ existing_key # name
      d1           == IF migrate THEN MigrateKey(st.data, existing_key, name) ELSE st.data
      create       == name \notin DictKeys(d1)
      d2           == IF create
                      THEN DictSet(d1, name, NewRootcauseEntry(inc, contract_url)) ELSE d1
      ov           == overrides_get(ovs, inc.Contract)
      d3           == IF OvPresent(ov)
                      THEN DictSet(d2, name, ApplyRootcauseOverride(DictGet(d2, name), ov))
                      ELSE d2
  IN [ data |-> d3, added |-> st.added \/ migrate \/ create ]

RECURSIVE RootcauseLoop(_, _, _)
RootcauseLoop(incs, st, ovs) ==
  IF incs = << >> THEN st
  ELSE RootcauseLoop(Tail(incs), RootcauseStep(st, Head(incs), ovs), ovs)

\* update_rootcause(incidents) on the stored mapping data: the mapping in
\* memory at the end and the flag added; the file is written only if added.
update_rootcause(incs, data, ovs) ==
  RootcauseLoop(incs, [ data |-> data, added |-> FALSE ], ovs)

-----------------------------------------------------------------------------
(* parse_diff_and_update.py: from the lines of a diff to blocks            *)

\* Lines 66-70: the added lines of the diff output, without their "+" and
\* stripped; the "+++" line of the file header is none.
RECURSIVE added_lines(_)
added_lines(diff) ==
  IF diff = << >> THEN << >>
  ELSE LET line == Head(diff)
       IN (IF StartsWith(line, "+") /\ ~ StartsWith(line, "+++")
           THEN << str_strip(SubSeq(line, 2, Len(line))) >> ELSE << >>)
            \o added_lines(Tail(diff))

\* \w
IsWordChar(c) ==
  c # "" /\ (IsLetter(c) \/ IsDigit(c) \/ c = "_")

\* \w* from position i: the position after the run of word characters.
RECURSIVE WordEnd(_, _)
WordEnd(s, i) ==
  IF IsWordChar(CharAt(s, i)) THEN WordEnd(s, i + 1) ELSE i

\* \d{8} at the start of the line
EightDigits(line) ==
  Len(line) >= 8 /\ AllDigits(SubSeq(line, 1, 8))

\* re.match(r"^\d{8}\s+\w+", line)
StartsBlock(line) ==
  /\ EightDigits(line)
  /\ SkipSpaces(line, 9) > 9
  /\ IsWordChar(CharAt(line, SkipSpaces(line, 9)))

\* Lines 72-81: a line that starts a block closes the block before it,
\* unless that one is empty.
RECURSIVE SplitFrom(_, _, _)
SplitFrom(lines, block, blocks) ==
  IF lines = << >> THEN (IF block # << >> THEN Append(blocks, block) ELSE blocks)
  ELSE IF StartsBlock(Head(lines)) /\ block # << >>
       THEN SplitFrom(Tail(lines), << Head(lines) >>, Append(blocks, block))
       ELSE SplitFrom(Tail(lines), Append(block, Head(lines)), blocks)

split_blocks(lines) ==
  SplitFrom(lines, << >>, << >>)

\* re.match(r"^(\d{8})\s+(\w+)\s*-\s*(.+)$", date_line) and raw_type.strip()
DateHeader(line) ==
  LET a  == SkipSpaces(line, 9)
      b  == WordEnd(line, a)
      c  == SkipSpaces(line, b)
      ok == EightDigits(line) /\ a > 9 /\ b > a /\ CharAt(line, c) = "-" /\ c < Len(line)
  IN [ ok       |-> ok,
       date     |-> IF ok THEN SubSeq(line, 1, 8) ELSE "",
       name     |-> IF ok THEN SubSeq(line, a, b - 1) ELSE "",
       raw_type |-> IF ok THEN str_strip(SubSeq(line, c + 1, Len(line))) ELSE "" ]

\* The first line of the block for which l.lower().startswith("lost:") holds,
\* as a one-element sequence; << >> when next() raises StopIteration.
RECURSIVE LostLine(_)
LostLine(block) ==
  IF block = << >> THEN << >>
  ELSE IF StartsWith(str_lower(Head(block)), "lost:") THEN << Head(block) >>
  ELSE LostLine(Tail(block))

\* [\d,.]* from position i: the position after the run.
RECURSIVE NumberEnd(_, _)
NumberEnd(s, i) ==
  IF IsDigit(CharAt(s, i)) \/ CharAt(s, i) \in { ",", "." } THEN NumberEnd(s, i + 1) ELSE i

\* [A-Z]* from position i: the position after the run.
RECURSIVE UpperEnd(_, _)
UpperEnd(s, i) ==
  IF CharAt(s, i) # "" /\ IndexIn(UpperChars, CharAt(s, i)) > 0 THEN UpperEnd(s, i + 1) ELSE i

\* The number a string of digits denotes
RECURSIVE IntOf(_)
IntOf(s) ==
  IF s = "" THEN 0 ELSE 10 * IntOf(SubSeq(s, 1, Len(s) - 1)) + (Ord(Char(s, Len(s))) - Ord("0"))

\* float(s) of a string of digits and dots: ok is FALSE when float raises
\* ValueError (no digit, or more than one dot).  The amounts of this model are
\* whole numbers: value is the number before the dot.
FloatOf(s) ==
  LET dot  == FindFrom(s, ".", 1)
      int  == IF dot = 0 THEN s ELSE SubSeq(s, 1, dot - 1)
      frac == IF dot = 0 THEN "" ELSE SubSeq(s, dot + 1, Len(s))
      ok   == AllDigits(int) /\ AllDigits(frac) /\ (int \o frac) # ""
  IN [ ok |-> ok, value |-> IF ok THEN IntOf(int) ELSE 0 ]

\* re.match(r"Lost:\s*([\d,.]+)\s*([A-Z]{2,5})", lost_line) and the float of
\* its first group without the commas.
LostOf(line) ==
  LET a   == SkipSpaces(line, 6)
      b   == NumberEnd(line, a)
      c   == SkipSpaces(line, b)
      d   == UpperEnd(line, c)
      ok  == StartsWith(line, "Lost:") /\ b > a /\ d >= c + 2
      num == IF ok THEN FloatOf(str_replace(SubSeq(line, a, b - 1), ",", ""))
             ELSE [ ok |-> FALSE, value |-> 0 ]
  IN [ ok        |-> ok /\ num.ok,
       lost      |-> num.value,
       loss_type |-> IF ok /\ num.ok
                     THEN SubSeq(line, c, (IF d - c > 5 THEN c + 5 ELSE d) - 1) ELSE "" ]

RECURSIVE JoinLines(_)
JoinLines(block) ==
  IF block = << >> THEN ""
  ELSE IF Len(block) = 1 THEN block[1]
  ELSE block[1] \o " " \o JoinLines(Tail(block))

\* The first line of the block that ends with ".sol", "" when there is none
RECURSIVE ContractLine(_)
ContractLine(block) ==
  IF block = << >> THEN ""
  ELSE IF EndsWith(Head(block), ".sol") THEN Head(block)
  ELSE ContractLine(Tail(block))

\* Lines 112-117: re.search(r"(src/[^\s]+\.sol)", " ".join(block)), else the
\* stripped contract line.
ContractOf(block) ==
  LET s == JoinLines(block)
      last(p) == LET e    == NonSpaceEnd(s, p + 4)
                     hits == { k \in (p + 5)..(e - 4) : At(s, ".sol", k) }
                 IN IF At(s, "src/", p) /\ hits # {} THEN SetMax(hits) + 3 ELSE 0
      starts == { p \in 1..Len(s) : last(p) > 0 }
  IN IF starts = {} THEN str_strip(ContractLine(block))
     ELSE SubSeq(s, SetMin(starts), last(SetMin(starts)))

\* What lines 93-119 read in a block of lines
BlockOf(block) ==
  LET hdr  == DateHeader(block[1])
      ll   == LostLine(block)
      lost == IF ll # << >> THEN LostOf(ll[1]) ELSE [ ok |-> FALSE, lost |-> 0, loss_type |-> "" ]
  IN [ nlines    |-> Len(block),
       lostLine  |-> ll # << >>,
       dateMatch |-> hdr.ok,
       lostMatch |-> lost.ok,
       date      |-> hdr.date,
       name      |-> hdr.name,
       raw_type  |-> hdr.raw_type,
       lost      |-> lost.lost,
       loss_type |-> lost.loss_type,
       contract  |-> ContractOf(block) ]

\* The blocks of a diff output, each by what is read in it
RECURSIVE BlocksOf(_)
BlocksOf(groups) ==
  IF groups = << >> THEN << >>
  ELSE << BlockOf(Head(groups)) >> \o BlocksOf(Tail(groups))

blocks_of_diff(diff) ==
  BlocksOf(split_blocks(added_lines(diff)))

\* The groups of added lines a diff of the changelog may hold, in the order
\* of the document.  GroupFoo and GroupBar are well formed; GroupShort has
\* two lines, GroupNoLost no "Lost:" line, GroupBadLoss an amount that is no
\* number and GroupNoDash a header without the dash before the type.
GroupShort ==
  << "+20250706 short - Reentrancy", "+Lost: 7 USD" >>

GroupFoo ==
  << "+20250709 foo - Reentrancy", "+Lost: 5,000 ETH", "+src/test/2025-07/foo_exp.sol" >>

GroupNoLost ==
  << "+20250707 nolost - Reentrancy", "+Loss 7 USD", "+src/test/2025-07/nolost_exp.sol" >>

GroupBadLoss ==
  << "+20250710 badloss - Reentrancy", "+Lost: 1.2.3 USD", "+src/test/2025-07/badloss_exp.sol" >>

GroupBar ==
  << "+20250705 bar - Flash loan attack", "+Lost: 100 USDC", "+[bar](src/test/2025-07/bar_exp.sol)" >>

GroupNoDash ==
  << "+20250708 nodash Reentrancy", "+Lost: 7 USD", "+src/test/2025-07/nodash_exp.sol" >>

AllGroups ==
  << GroupShort, GroupFoo, GroupNoLost, GroupBadLoss, GroupBar, GroupNoDash >>

MaxGroups ==
  3

\* The first lines of the output of git diff
DiffHead ==
  << "diff --git a/README.md b/README.md", "--- a/README.md", "+++ b/README.md",
     "@@ -10,3 +10,9 @@", " ## List of Past DeFi Incidents" >>

RECURSIVE DiffOf(_, _)
DiffOf(S, i) ==
  IF i > Len(AllGroups) THEN << >>
  ELSE (IF i \in S THEN AllGroups[i] ELSE << >>) \o DiffOf(S, i + 1)

\* A diff that adds the same group twice
DiffRepeated ==
  DiffHead \o GroupFoo \o GroupFoo

\* The outputs of git diff: the head and up to MaxGroups of the groups, or
\* one group twice.
Diffs ==
  { DiffHead \o DiffOf(S, 1) : S \in { T \in SUBSET (1..Len(AllGroups)) :
                                         Cardinality(T) >= 1 /\ Cardinality(T) <= MaxGroups } }
    \cup { DiffRepeated }

\* The blocks of each diff, computed once per diff.
DiffBlocks ==
  [ d \in Diffs |-> blocks_of_diff(d) ]

DiffBlockSet ==
  UNION { { DiffBlocks[d][i] : i \in 1..Len(DiffBlocks[d]) } : d \in Diffs }

-----------------------------------------------------------------------------
(* parse_diff_and_update.py                                                *)

\* A block of added changelog lines is given by what lines 93-119 read from
\* it: nlines is len(block), lostLine whether a line starts with "lost:",
\* dateMatch and lostMatch whether the two regular expressions match, and
\* the groups they capture.
BlockAccepted(b) ==
  /\ b.nlines >= 3
  /\ b.lostLine
  /\ b.dateMatch
  /\ b.lostMatch

\* Lines 121-128
BlockIncident(b) ==
  [ date     |-> b.date,
    name     |-> b.name,
    type     |-> normalize_attack_type(b.raw_type),
    Lost     |-> b.lost,
    lossType |-> b.loss_type,
    Contract |-> b.contract,
    chain    |-> Absent ]

PathFoo ==
  "src/test/2025-07/foo_exp.sol"

PathBar ==
  "src/test/2025-07/bar_exp.sol"

Block(date, name, raw_type, lost, loss_type, contract, lostLine) ==
  [ nlines |-> 3, lostLine |-> lostLine, dateMatch |-> TRUE, lostMatch |-> lostLine,
    date |-> date, name |-> name, raw_type |-> raw_type, lost |-> lost,
    loss_type |-> loss_type, contract |-> contract ]

\* The blocks a diff of the changelog may add, in the order of the document;
\* the last one has no "Lost:" line.
AllBlocks ==
  << Block("20250709", "foo", "Reentrancy", 5000, "ETH", PathFoo, TRUE),
     Block("20250705", "bar", "Flash loan attack", 100, "USDC", PathBar, TRUE),
     Block("20250706", "bad", "Reentrancy", 0, "USD", PathBar, FALSE) >>

Blocks ==
  { AllBlocks[i] : i \in 1..Len(AllBlocks) }

\* The incident of each block, computed once per block.
IncidentOfBlock ==
  [ b \in Blocks \cup DiffBlockSet |-> BlockIncident(b) ]

IncidentOf(b) ==
  IncidentOfBlock[b]

\* The mutation of AppendBlocks that ends the loop at the first block that
\* is not accepted.
RECURSIVE AppendBlocks_StopAtBad(_, _, _)
AppendBlocks_StopAtBad(blocks, incs, existing_set) ==
  IF blocks = << >> THEN incs
  ELSE LET b == Head(blocks)
       IN IF ~ BlockAccepted(b) THEN incs
          ELSE IF IncidentOf(b) \notin existing_set
          THEN AppendBlocks_StopAtBad(Tail(blocks), Append(incs, IncidentOf(b)), existing_set)
          ELSE AppendBlocks_StopAtBad(Tail(blocks), incs, existing_set)

\* Lines 89-136: existing_set holds the records loaded at the start and is
\* not extended while blocks are appended.
RECURSIVE AppendBlocks(_, _, _)
AppendBlocks(blocks, incs, existing_set) ==
  IF blocks = << >> THEN incs
  ELSE LET b == Head(blocks)
       IN IF BlockAccepted(b) /\ IncidentOf(b) \notin existing_set
          THEN AppendBlocks(Tail(blocks), Append(incs, IncidentOf(b)), existing_set)
          ELSE AppendBlocks(Tail(blocks), incs, existing_set)

parse_diff_and_update(loaded, blocks) ==
  AppendBlocks(blocks, loaded, { loaded[i] : i \in 1..Len(loaded) })

-----------------------------------------------------------------------------
(* Inputs                                                                  *)

MaxSteps ==
  3

MaxArtifacts ==
  2

MaxBlocks ==
  2

RECURSIVE SubCorpus(_, _)
SubCorpus(S, i) ==
  IF i > Len(AllArtifacts) THEN << >>
  ELSE (IF i \in S THEN << AllArtifacts[i] >> ELSE << >>) \o SubCorpus(S, i + 1)

Corpora ==
  { SubCorpus(S, 1) : S \in { T \in SUBSET (1..Len(AllArtifacts)) :
                               Cardinality(T) >= 1 /\ Cardinality(T) <= MaxArtifacts } }

OvEntry(date, name, type, lost, lossType, chain, links) ==
  [ date |-> date, name |-> name, type |-> type, Lost |-> lost, lossType |-> lossType,
    loss_type |-> Absent, chain |-> chain, links |-> links, references |-> << >> ]

\* The contents scripts/overrides.json may have.
OverrideFiles ==
  { << >>,
    (PathFoo :> OvEntry(Absent, Absent, Absent, 5000, Absent, Absent, << >>)),
    (PathFoo :> OvEntry(Absent, Absent, "", 0, Absent, Absent, << >>)),
    (PathFoo :> OvEntry("20250709", Absent, "Reentrancy Attack", NoLost, "ETH", "Ethereum",
                        << "https://example.org/post" >>)),
    (PathFoo :> OvEntry(Absent, "Acme", Absent, NoLost, Absent, Absent, << >>))
      @@ (PathBar :> OvEntry(Absent, "Acme", Absent, NoLost, Absent, Absent, << >>)) }

RECURSIVE SubBatch(_, _)
SubBatch(S, i) ==
  IF i > Len(AllBlocks) THEN << >>
  ELSE (IF i \in S THEN << AllBlocks[i] >> ELSE << >>) \o SubBatch(S, i + 1)

\* The diffs: up to MaxBlocks of the blocks, in document order.
BlockBatches ==
  { SubBatch(S, 1) : S \in { T \in SUBSET (1..Len(AllBlocks)) :
                              Cardinality(T) >= 1 /\ Cardinality(T) <= MaxBlocks } }

\* --start-ym of the command line, "" when it is not given
StartYms ==
  { "", "2025-08" }

-----------------------------------------------------------------------------
(* The pipelines as actions                                                *)

\* Nothing has been given to the text functions.
InitAux ==
  /\ lossText = ""
  /\ lossParsed = [ lost |-> 0, currency |-> "USD" ]
  /\ readme = << >>
  /\ target = ""
  /\ located = NoSection

\* Every file is readable, source/src/test is there, no commit is tracked.
InitEnv ==
  /\ incFile = "json"
  /\ srcRoot = TRUE
  /\ tracker = ""
  /\ raised = FALSE
  /\ batch = << >>

NoOp ==
  [ op |-> "none", start_ym |-> "", preserve_order |-> FALSE ]

Init ==
  /\ incidents = << >>
  /\ rootcause = << >>
  /\ rcFile = "missing"
  /\ corpus \in Corpora
  /\ overrides = << >>
  /\ lastOp = NoOp
  /\ preIncidents = << >>
  /\ preRootcause = << >>
  /\ preRcFile = "missing"
  /\ mergeLog = << >>
  /\ stableRuns = 0
  /\ steps = 0
  /\ phrase = ""
  /\ label = ""
  /\ newData = << >>
  /\ InitAux
  /\ InitEnv

\* main() of update_data.py: update_incidents, then update_rootcause on the
\* list it returned.
Main(start_ym, preserve_order) ==
  \E ui \in { update_incidents(incidents,
                                 \* os.walk of a directory that does not exist
                                 \* yields nothing (line 171)
                                 IF srcRoot THEN corpus ELSE << >>,
                                 overrides, start_ym, preserve_order) } :
    \E rc \in { update_rootcause(ui.incidents, rootcause, overrides) } :
      LET op == [ op |-> "main", start_ym |-> start_ym, preserve_order |-> preserve_order ]
          \* json.load of line 164 raises on a file that is not JSON: the run
          \* ends there, before anything is written
          inc_raises == incFile = "garbage"
          \* json.load of line 627 raises on a file that is not JSON: the run
          \* ends there, after update_incidents has written incidents.json
          rc_raises == ~ inc_raises /\ rcFile = "garbage"
          wrote == rc.added /\ ~ inc_raises /\ ~ rc_raises
      IN /\ steps < MaxSteps
         /\ incidents' = IF inc_raises THEN incidents ELSE ui.incidents
         /\ rootcause' = IF wrote THEN rc.data ELSE rootcause
         /\ rcFile' = IF wrote THEN "json" ELSE rcFile
         /\ mergeLog' = IF inc_raises THEN << >> ELSE ui.log
         /\ raised' = (inc_raises \/ rc_raises)
         /\ preIncidents' = incidents
         /\ preRootcause' = rootcause
         /\ preRcFile' = rcFile
         /\ stableRuns' = IF lastOp = op /\ stableRuns >= 1 THEN 2 ELSE 1
         /\ lastOp' = op
         /\ steps' = steps + 1
         /\ batch' = << >>
         /\ UNCHANGED << corpus, overrides, phrase, label, newData, auxVars, incFile,
                         srcRoot, tracker >>

\* The commits of the upstream repository; "c1" is its first commit.
Commits ==
  { "c1", "c2" }

\* git rev-parse <commit>~1 (lines 25-38): the parent, and the commit itself
\* when it has none.
ParentOrSelf(commit) ==
  IF commit = "c2" THEN "c1" ELSE commit

\* The mutation of changelog_run that writes the tracker before it diffs.
changelog_run_TrackFirst(loaded, file, last_processed, current_commit, diff_ok, blocks) ==
  LET last_commit == IF last_processed # "" THEN last_processed
                     ELSE ParentOrSelf(current_commit)
      fails == last_commit # current_commit /\ (~ diff_ok \/ file = "garbage")
  IN [ incidents |-> IF last_commit = current_commit \/ fails THEN loaded
                     ELSE parse_diff_and_update(loaded, blocks),
       tracker   |-> current_commit,
       raised    |-> fails,
       read      |-> last_commit # current_commit /\ diff_ok ]

\* The script parse_diff_and_update.py from its first line to its last:
\* what it leaves in incidents.json and in the tracker file, whether it
\* ended with an uncaught exception, and whether it read the blocks of a diff.  Nothing is diffed when the tracked
\* commit is the current one (lines 40-44); git diff (lines 48-59) and
\* json.load (lines 83-85) raise before anything is written.
changelog_run(loaded, file, last_processed, current_commit, diff_ok, blocks) ==
  LET last_commit == IF last_processed # "" THEN last_processed
                     ELSE ParentOrSelf(current_commit)
      fails == last_commit # current_commit /\ (~ diff_ok \/ file = "garbage")
  IN [ incidents |-> IF last_commit = current_commit \/ fails THEN loaded
                     ELSE parse_diff_and_update(loaded, blocks),
       tracker   |-> IF fails THEN last_processed ELSE current_commit,
       raised    |-> fails,
       read      |-> last_commit # current_commit /\ diff_ok ]

\* One run of parse_diff_and_update.py: current_commit is the commit in
\* repo_main_current_commit.txt, diff_ok whether git diff succeeds (lastOp
\* tells when it was called and failed), blocks the blocks of added lines of
\* its output.
ParseDiff(current_commit, diff_ok, blocks) ==
  /\ steps < MaxSteps
  /\ \E run \in { changelog_run(incidents, incFile, tracker, current_commit, diff_ok,
                                 blocks) } :
        /\ incidents' = run.incidents
        /\ tracker' = run.tracker
        /\ raised' = run.raised
        /\ batch' = IF run.read THEN blocks ELSE << >>
        /\ lastOp' = [ op |-> IF run.raised /\ ~ diff_ok THEN "diff_failed" ELSE "diff",
                       start_ym |-> "", preserve_order |-> FALSE ]
  /\ preIncidents' = incidents
  /\ preRootcause' = rootcause
  /\ preRcFile' = rcFile
  /\ mergeLog' = << >>
  /\ stableRuns' = 0
  /\ steps' = steps + 1
  /\ UNCHANGED << rootcause, rcFile, corpus, overrides, phrase, label, newData, auxVars,
                  incFile, srcRoot >>

\* A maintainer rewrites scripts/overrides.json.
EditOverrides(file) ==
  /\ steps < MaxSteps
  /\ file # overrides
  /\ overrides' = file
  /\ preIncidents' = incidents
  /\ preRootcause' = rootcause
  /\ preRcFile' = rcFile
  /\ mergeLog' = << >>
  /\ stableRuns' = 0
  /\ lastOp' = [ op |-> "edit", start_ym |-> "", preserve_order |-> FALSE ]
  /\ steps' = steps + 1
  /\ raised' = FALSE
  /\ batch' = << >>
  /\ UNCHANGED << incidents, rootcause, rcFile, corpus, phrase, label, newData, auxVars,
                  incFile, srcRoot, tracker >>

\* The pipelines with every file readable and git at work.
Next ==
  \/ \E start_ym \in StartYms, preserve_order \in BOOLEAN : Main(start_ym, preserve_order)
  \/ \E current_commit \in Commits, blocks \in BlockBatches :
       ParseDiff(current_commit, TRUE, blocks)
  \/ \E file \in OverrideFiles : EditOverrides(file)

Spec ==
  Init /\ [][Next]_vars

-----------------------------------------------------------------------------
(* scripts/build_rootcause_from_md.py                                      *)

\* A Markdown file under ./root is given by what _parse_md returns for it
\* (lines 116-124): every string stripped, the date through _format_date,
\* the images without repetition (lines 56-63).  The title is never empty
\* (it falls back to the file's base name); readable is FALSE for a file
\* whose open() fails, for which _parse_md returns None.
Doc(title, type, date, lost, pocLink, rootCause, images) ==
  [ readable |-> TRUE, title |-> title, type |-> type, date |-> date, Lost |-> lost,
    pocLink |-> pocLink, rootCause |-> rootCause, images |-> images ]

DocFoo ==
  Doc("foo", "Reentrancy", "2025-07-09", "5000 ETH", "",
      "State is written after the external call.", << "root/img/a.png" >>)

DocFooStub ==
  Doc("foo", "", "", "", "https://example.org/poc", "",
      << "root/img/b.png", "root/img/a.png" >>)

DocBar ==
  Doc("bar", "Flash Loan", "", "", "", "", << >>)

DocUnreadable ==
  [ Doc("", "", "", "", "", "", << >>) EXCEPT !.readable = FALSE ]

\* The Markdown files in the order _iter_md_files yields them.
AllDocs ==
  << DocFoo, DocFooStub, DocBar, DocUnreadable >>

\* Lines 153-163: the entry build_rootcause makes of a parsed file; Lost and
\* POC are keys of it only when they are not empty.
BuiltEntry(data) ==
  [ type      |-> data.type,
    date      |-> data.date,
    rootCause |-> data.rootCause,
    images    |-> data.images,
    Lost      |-> IF data.Lost # "" THEN data.Lost ELSE Absent,
    Contract  |-> Absent,
    POC       |-> IF data.pocLink # "" THEN data.pocLink ELSE Absent ]

RECURSIVE BuildLoop(_, _)
BuildLoop(docs, out) ==
  IF docs = << >> THEN out
  ELSE LET data == Head(docs)
       IN IF ~ data.readable \/ data.title = ""
          THEN BuildLoop(Tail(docs), out)
          ELSE BuildLoop(Tail(docs), DictSet(out, data.title, BuiltEntry(data)))

build_rootcause(docs) ==
  BuildLoop(docs, << >>)

\* list(dict.fromkeys(xs)): xs without repetitions, first occurrences kept
RECURSIVE Dedup(_, _)
Dedup(xs, seen) ==
  IF xs = << >> THEN << >>
  ELSE IF Head(xs) \in seen THEN Dedup(Tail(xs), seen)
  ELSE << Head(xs) >> \o Dedup(Tail(xs), seen \cup { Head(xs) })

\* Lines 184-189 for one field: nv is v.get(field), Absent for None.
MergeField(pv, nv) ==
  IF nv # Absent /\ nv # "" /\ str_strip(nv) # "" THEN nv ELSE pv

\* merged.get(k, {}) of a key that is not in the store
NoEntry ==
  [ type |-> Absent, date |-> Absent, rootCause |-> Absent, images |-> << >>,
    Lost |-> Absent, Contract |-> Absent, POC |-> Absent ]

\* The mutation of MergeEntry in which the new entry replaces the old one.
MergeEntry_Replace(prev, v) ==
  v

\* Lines 181-192: the new entry v merged onto the previous one.  Every
\* entry build_rootcause makes has the key images.
MergeEntry(prev, v) ==
  [ type      |-> MergeField(prev.type, v.type),
    date      |-> MergeField(prev.date, v.date),
    rootCause |-> MergeField(prev.rootCause, v.rootCause),
    images    |-> Dedup(prev.images \o v.images, {}),
    Lost      |-> MergeField(prev.Lost, v.Lost),
    Contract  |-> prev.Contract,
    POC       |-> MergeField(prev.POC, v.POC) ]

RECURSIVE MergeLoop(_, _)
MergeLoop(new_data, merged) ==
  IF new_data = << >> THEN merged
  ELSE LET k    == Head(new_data).k
           prev == IF k \in DictKeys(merged) THEN DictGet(merged, k) ELSE NoEntry
       IN MergeLoop(Tail(new_data), DictSet(merged, k, MergeEntry(prev, Head(new_data).v)))

\* merge_existing(new_data) with rootcause_data.json in state file and, when
\* it is JSON, holding store.
merge_existing(new_data, store, file) ==
  IF file = "missing" THEN new_data
  ELSE MergeLoop(new_data, IF file = "garbage" THEN << >> ELSE store)

MaxDocs ==
  2

RECURSIVE SubDocs(_, _)
SubDocs(S, i) ==
  IF i > Len(AllDocs) THEN << >>
  ELSE (IF i \in S THEN << AllDocs[i] >> ELSE << >>) \o SubDocs(S, i + 1)

\* The content of ./root: up to MaxDocs of the files.
DocSets ==
  { SubDocs(S, 1) : S \in { T \in SUBSET (1..Len(AllDocs)) : Cardinality(T) <= MaxDocs } }

\* main() of build_rootcause_from_md.py over the files docs of ./root; when
\* ./root is no directory main raises SystemExit before it reads or writes
\* anything (lines 197-199).
BuildMain(root_is_dir, docs) ==
  LET new_data == build_rootcause(docs)
  IN /\ steps < MaxSteps
     /\ newData' = IF root_is_dir THEN new_data ELSE newData
     /\ rootcause' = IF root_is_dir THEN merge_existing(new_data, rootcause, rcFile)
                     ELSE rootcause
     /\ rcFile' = IF root_is_dir THEN "json" ELSE rcFile
     /\ raised' = ~ root_is_dir
     /\ preIncidents' = incidents
     /\ preRootcause' = rootcause
     /\ preRcFile' = rcFile
     /\ mergeLog' = << >>
     /\ stableRuns' = 0
     /\ lastOp' = [ op |-> "build", start_ym |-> "", preserve_order |-> FALSE ]
     /\ steps' = steps + 1
     /\ batch' = << >>
     /\ UNCHANGED << incidents, corpus, overrides, phrase, label, auxVars, incFile, srcRoot,
                     tracker >>

\* rootcause_data.json is left with content that json.load rejects (a
\* truncated write, a hand edit): the case of lines 171-175.
CorruptStore ==
  /\ steps < MaxSteps
  /\ rcFile = "json"
  /\ rcFile' = "garbage"
  /\ rootcause' = << >>
  /\ preIncidents' = incidents
  /\ preRootcause' = rootcause
  /\ preRcFile' = rcFile
  /\ mergeLog' = << >>
  /\ stableRuns' = 0
  /\ lastOp' = [ op |-> "corrupt", start_ym |-> "", preserve_order |-> FALSE ]
  /\ steps' = steps + 1
  /\ raised' = FALSE
  /\ batch' = << >>
  /\ UNCHANGED << incidents, corpus, overrides, phrase, label, newData, auxVars,
                  incFile, srcRoot, tracker >>

\* The two scripts that write rootcause_data.json, over one corpus.
InitMerge ==
  /\ incidents = << >>
  /\ rootcause = << >>
  /\ rcFile = "missing"
  /\ corpus = << ArtBar, ArtFoo >>
  /\ overrides = << >>
  /\ lastOp = NoOp
  /\ preIncidents = << >>
  /\ preRootcause = << >>
  /\ preRcFile = "missing"
  /\ mergeLog = << >>
  /\ stableRuns = 0
  /\ steps = 0
  /\ phrase = ""
  /\ label = ""
  /\ newData = << >>
  /\ InitAux
  /\ InitEnv

NextMerge ==
  \/ Main("", FALSE)
  \/ \E docs \in DocSets : BuildMain(TRUE, docs)
  \/ CorruptStore

SpecMerge ==
  InitMerge /\ [][NextMerge]_vars

-----------------------------------------------------------------------------
(* The normalizer on phrases                                               *)

\* The words the phrases are made of.
Vocabulary ==
  { "Reentrancy", "REENTRANCY", "reentrancy", "read-only", "attack", "Hack:",
    "flash loan", "unauthorized", "via", "bug", "callback" }

MaxWords ==
  2

\* A word is added to the phrase and the phrase is normalized, as line 110 of
\* parse_diff_and_update.py does with the type of a block.
Normalize(w) ==
  /\ steps < MaxWords
  /\ phrase' = (IF phrase = "" THEN w ELSE phrase \o " " \o w)
  /\ label' = normalize_attack_type(phrase')
  /\ steps' = steps + 1
  /\ UNCHANGED << incidents, rootcause, rcFile, corpus, overrides, lastOp, preIncidents,
                  preRootcause, preRcFile, mergeLog, stableRuns, newData, auxVars, envVars >>

InitNorm ==
  /\ incidents = << >>
  /\ rootcause = << >>
  /\ rcFile = "missing"
  /\ corpus = << >>
  /\ overrides = << >>
  /\ lastOp = NoOp
  /\ preIncidents = << >>
  /\ preRootcause = << >>
  /\ preRcFile = "missing"
  /\ mergeLog = << >>
  /\ stableRuns = 0
  /\ steps = 0
  /\ phrase \in { "", " " }
  /\ label = normalize_attack_type(phrase)
  /\ newData = << >>
  /\ InitAux
  /\ InitEnv

NextNorm ==
  \E w \in Vocabulary : Normalize(w)

SpecNorm ==
  InitNorm /\ [][NextNorm]_vars

\* The words of phrases for which the table may have no pattern.
NovelVocabulary ==
  { "Weird", "New", "Bug", "Class", "Hack:" }

MaxNovelWords ==
  4

\* normalize_attack_type on a phrase made of distinct words of these.
NormalizeNovel(w) ==
  /\ steps < MaxNovelWords
  /\ ~ Contains(phrase, w)
  /\ phrase' = (IF phrase = "" THEN w ELSE phrase \o " " \o w)
  /\ label' = normalize_attack_type(phrase')
  /\ steps' = steps + 1
  /\ UNCHANGED << incidents, rootcause, rcFile, corpus, overrides, lastOp, preIncidents,
                  preRootcause, preRcFile, mergeLog, stableRuns, newData, auxVars, envVars >>

InitNovel ==
  /\ InitNorm
  /\ phrase = ""

NextNovel ==
  \E w \in NovelVocabulary : NormalizeNovel(w)

SpecNovel ==
  InitNovel /\ [][NextNovel]_vars

-----------------------------------------------------------------------------
(* The loss parser on loss lines                                           *)

\* The parts of a loss line: the key, the number (with ten times its value),
\* the magnitude suffix and the currency token (with its normal form).
LossKeys ==
  { "Total Lost : ", "Total Lost: ~", "Lost - $" }

LossNumbers ==
  { [ txt |-> "6.8", tenths |-> 68 ], [ txt |-> "1.7", tenths |-> 17 ],
    [ txt |-> "5", tenths |-> 50 ], [ txt |-> "1,234", tenths |-> 12340 ],
    [ txt |-> "285.7", tenths |-> 2857 ] }

LossSuffixes ==
  { [ txt |-> "", mult |-> 1 ], [ txt |-> "k", mult |-> 1000 ],
    [ txt |-> "K", mult |-> 1000 ], [ txt |-> "M", mult |-> 1000000 ] }

LossCurrencies ==
  { [ txt |-> "", cur |-> "USD" ], [ txt |-> " USDC", cur |-> "USDC" ],
    [ txt |-> " US$", cur |-> "USD" ], [ txt |-> " ETH", cur |-> "ETH" ] }

LossLines ==
  { [ text |-> k \o n.txt \o u.txt \o c.txt, tenths |-> n.tenths, mult |-> u.mult,
      cur |-> c.cur ] :
      k \in LossKeys, n \in LossNumbers, u \in LossSuffixes, c \in LossCurrencies }

\* Texts that hold no number after a loss key
NoLossTexts ==
  { "not a number", "Total Lost: unknown", "6.8k USDC", "@Type: Reentrancy" }

\* _parse_loss_and_currency on one text.
ParseLoss(text) ==
  /\ steps = 0
  /\ lossText = ""
  /\ lossText' = text
  /\ lossParsed' = parse_loss_and_currency(text)
  /\ steps' = 1
  /\ UNCHANGED << incidents, rootcause, rcFile, corpus, overrides, lastOp, preIncidents,
                  preRootcause, preRcFile, mergeLog, stableRuns, phrase, label, newData,
                  sectionVars, envVars >>

InitLoss ==
  /\ InitNorm
  /\ phrase = ""

NextLoss ==
  \E text \in { l.text : l \in LossLines } \cup NoLossTexts : ParseLoss(text)

SpecLoss ==
  InitLoss /\ [][NextLoss]_vars

-----------------------------------------------------------------------------
(* The pipelines over files and directories that are missing or damaged    *)

\* _load_overrides (lines 16-44): the mapping of a file that holds a JSON
\* object; the empty mapping when the file is missing, is not JSON ("garbage"),
\* holds a JSON value that is neither a list nor an object ("scalar"), or holds
\* a list whose entries are not objects ("list_of_scalars").
load_overrides(kind, mapping) ==
  IF kind = "dict" THEN mapping ELSE << >>

MalformedKinds ==
  { "garbage", "scalar", "list_of_scalars" }

\* scripts/overrides.json is left malformed.
BreakOverrides(kind) ==
  /\ steps < MaxSteps
  /\ lastOp.op # "break_overrides"
  /\ overrides' = load_overrides(kind, overrides)
  /\ preIncidents' = incidents
  /\ preRootcause' = rootcause
  /\ preRcFile' = rcFile
  /\ mergeLog' = << >>
  /\ stableRuns' = 0
  /\ lastOp' = [ op |-> "break_overrides", start_ym |-> kind, preserve_order |-> FALSE ]
  /\ steps' = steps + 1
  /\ raised' = FALSE
  /\ batch' = << >>
  /\ UNCHANGED << incidents, rootcause, rcFile, corpus, phrase, label, newData, auxVars,
                  incFile, srcRoot, tracker >>

\* incidents.json is left with content that json.load rejects.
CorruptCatalog ==
  /\ steps < MaxSteps
  /\ incFile = "json"
  /\ incFile' = "garbage"
  /\ incidents' = << >>
  /\ preIncidents' = incidents
  /\ preRootcause' = rootcause
  /\ preRcFile' = rcFile
  /\ mergeLog' = << >>
  /\ stableRuns' = 0
  /\ lastOp' = [ op |-> "corrupt_catalog", start_ym |-> "", preserve_order |-> FALSE ]
  /\ steps' = steps + 1
  /\ raised' = FALSE
  /\ batch' = << >>
  /\ UNCHANGED << rootcause, rcFile, corpus, overrides, phrase, label, newData, auxVars,
                  srcRoot, tracker >>

\* The checkout of the upstream repository is gone: source/src/test is no
\* directory any more.
RemoveSource ==
  /\ steps < MaxSteps
  /\ srcRoot
  /\ srcRoot' = FALSE
  /\ preIncidents' = incidents
  /\ preRootcause' = rootcause
  /\ preRcFile' = rcFile
  /\ mergeLog' = << >>
  /\ stableRuns' = 0
  /\ lastOp' = [ op |-> "remove_source", start_ym |-> "", preserve_order |-> FALSE ]
  /\ steps' = steps + 1
  /\ raised' = FALSE
  /\ batch' = << >>
  /\ UNCHANGED << incidents, rootcause, rcFile, corpus, overrides, phrase, label, newData,
                  auxVars, incFile, tracker >>

InitFault ==
  InitMerge

NextFault ==
  \/ Main("", FALSE)
  \/ \E diff_ok \in BOOLEAN : ParseDiff("c2", diff_ok, << AllBlocks[2], AllBlocks[1] >>)
  \/ \E root_is_dir \in BOOLEAN : BuildMain(root_is_dir, << DocFoo >>)
  \/ \E kind \in MalformedKinds : BreakOverrides(kind)
  \/ CorruptStore
  \/ CorruptCatalog
  \/ RemoveSource

SpecFault ==
  InitFault /\ [][NextFault]_vars

-----------------------------------------------------------------------------
(* The changelog script over diffs of text                                 *)

MaxRuns ==
  2

InitDiff ==
  InitNorm /\ phrase = ""

NextDiff ==
  \E current_commit \in Commits, diff_ok \in BOOLEAN, d \in Diffs :
    steps < MaxRuns /\ ParseDiff(current_commit, diff_ok, DiffBlocks[d])

SpecDiff ==
  InitDiff /\ [][NextDiff]_vars

-----------------------------------------------------------------------------
(* The root-cause catalog while the corpus and the overrides change        *)

\* The artifacts of AllArtifacts that the corpus holds
InCorpus ==
  { i \in 1..Len(AllArtifacts) : \E j \in 1..Len(corpus) : corpus[j] = AllArtifacts[i] }

\* The upstream repository gains the artifact AllArtifacts[i]; os.walk keeps
\* its order.
AddArtifact(i) ==
  /\ steps < MaxSteps
  /\ i \notin InCorpus
  /\ corpus' = SubCorpus(InCorpus \cup { i }, 1)
  /\ preIncidents' = incidents
  /\ preRootcause' = rootcause
  /\ preRcFile' = rcFile
  /\ mergeLog' = << >>
  /\ stableRuns' = 0
  /\ lastOp' = [ op |-> "add", start_ym |-> "", preserve_order |-> FALSE ]
  /\ steps' = steps + 1
  /\ raised' = FALSE
  /\ batch' = << >>
  /\ UNCHANGED << incidents, rootcause, rcFile, overrides, phrase, label, newData, auxVars,
                  incFile, srcRoot, tracker >>

\* The docs build_rootcause_from_md.py is run on here.
CurateDocs ==
  { << DocFoo >>, << DocBar >>, << DocFoo, DocBar >> }

\* The two catalogs as a first run of main() leaves them, on empty stores,
\* for a corpus and an override file.
InitCurate ==
  /\ corpus \in { << ArtFoo >>, << ArtBar, ArtFoo >> }
  /\ overrides \in OverrideFiles
  /\ \E ui \in { update_incidents(<< >>, corpus, overrides, "", FALSE) } :
       /\ incidents = ui.incidents
       /\ rootcause = update_rootcause(ui.incidents, << >>, overrides).data
  /\ rcFile = "json"
  /\ lastOp = NoOp
  /\ preIncidents = << >>
  /\ preRootcause = << >>
  /\ preRcFile = "missing"
  /\ mergeLog = << >>
  /\ stableRuns = 0
  /\ steps = 0
  /\ phrase = ""
  /\ label = ""
  /\ newData = << >>
  /\ InitAux
  /\ InitEnv

NextCurate ==
  \/ Main("", FALSE)
  \/ \E docs \in CurateDocs : BuildMain(TRUE, docs)
  \/ \E file \in OverrideFiles : EditOverrides(file)
  \/ \E i \in 1..Len(AllArtifacts) : AddArtifact(i)

SpecCurate ==
  InitCurate /\ [][NextCurate]_vars

\* The same, with an override file that nobody edits.
NextLinks ==
  \/ Main("", FALSE)
  \/ \E docs \in CurateDocs : BuildMain(TRUE, docs)
  \/ \E i \in 1..Len(AllArtifacts) : AddArtifact(i)

SpecLinks ==
  InitCurate /\ [][NextLinks]_vars

-----------------------------------------------------------------------------
(* The section locator on READMEs of a few sections                        *)

SecForgeFoo ==
  "forge test --contracts ./src/test/2025-07/foo_exp.sol -vvv"

SecForgeBar ==
  "forge test --contracts ./src/test/2025-07/bar_exp.sol -vvv"

SecNameFoo ==
  "the foo incident"

SecLinkBar ==
  "see [bar_exp.sol](src/test/2025-07/bar_exp.sol)"

SecBlockFoo ==
  "#### Contract [foo](src/test/2025-07/foo_exp.sol)"

SecNotes ==
  "notes"

SectionTexts ==
  { SecForgeFoo, SecForgeBar, SecNameFoo, SecLinkBar, SecBlockFoo, SecNotes }

TargetFiles ==
  { "foo_exp.sol", "bar_exp.sol" }

MaxSections ==
  3

RECURSIVE SectionLists(_)
SectionLists(n) ==
  IF n = 0 THEN { << >> }
  ELSE { << >> } \cup { Append(l, s) : l \in SectionLists(n - 1), s \in SectionTexts }

\* One file of source/src/test/2025-07 is looked up in a README of sections.
LocateSection(sections, f) ==
  /\ steps = 0
  /\ target = ""
  /\ readme' = sections
  /\ target' = f
  /\ located' = locate_section(sections, f, "src/test/2025-07/" \o f)
  /\ steps' = 1
  /\ UNCHANGED << incidents, rootcause, rcFile, corpus, overrides, lastOp, preIncidents,
                  preRootcause, preRcFile, mergeLog, stableRuns, phrase, label, newData,
                  lossVars, envVars >>

InitSection ==
  InitNorm /\ phrase = ""

NextSection ==
  \E sections \in SectionLists(MaxSections) \ { << >> }, f \in TargetFiles :
    LocateSection(sections, f)

SpecSection ==
  InitSection /\ [][NextSection]_vars

-----------------------------------------------------------------------------
(* Properties of the incident catalog and of the root-cause catalog         *)

Contracts(lst) ==
  { lst[i].Contract : i \in 1..Len(lst) }

\* The entries of mergeLog that merged onto an existing entry.
MergedEntries ==
  { k \in 1..Len(mergeLog) : ~ mergeLog[k].fresh }

\* C1: no two entries of the incident catalog have the same Contract, after
\* any sequence of runs of update_incidents and of the changelog pipeline.
C1_ContractUnique ==
  \A i, j \in 1..Len(incidents) : i # j => incidents[i].Contract # incidents[j].Contract

C3_OverrideWins ==
  \A k \in 1..Len(mergeLog) :
    LET e == mergeLog[k]
    IN OvPresent(e.ov) =>
         /\ e.ov.date # Absent => e.after.date = e.ov.date
         /\ e.ov.name # Absent => e.after.name = e.ov.name
         /\ e.ov.type # Absent => e.after.type = e.ov.type
         /\ e.ov.Lost # NoLost => e.after.Lost = e.ov.Lost
         /\ e.ov.lossType # Absent => e.after.lossType = e.ov.lossType
         /\ e.ov.chain # Absent => e.after.chain = e.ov.chain

\* C4: when an incident's display name differs from the key under which the
\* root-cause entry with its contract URL is stored, then after the run exactly
\* one entry holds that URL, it is stored under the display name, no entry
\* under the old key holds the URL, and its rootCause is the one from before.
C4_KeyMigration ==
  lastOp.op = "main" =>
    \A i \in 1..Len(incidents) :
      LET inc    == incidents[i]
          url    == GITHUB_BASE \o inc.Contract
          oldKey == find_key_by_contract(preRootcause, url)
          hits   == { j \in 1..Len(rootcause) : rootcause[j].v.Contract = url }
      IN (Truthy(oldKey) /\ oldKey # inc.name) =>
           /\ Cardinality(hits) = 1
           /\ \A j \in hits :
                /\ rootcause[j].k = inc.name
                /\ rootcause[j].k # oldKey
                /\ rootcause[j].v.rootCause = DictGet(preRootcause, oldKey).rootCause

\* C5: merging a candidate whose type is empty onto an existing entry whose
\* type is not empty leaves the entry's type as it was.
C5_TypeNotRegressed ==
  \A k \in MergedEntries :
    LET e == mergeLog[k]
    IN (e.cand.type = "" /\ Truthy(e.before.type)) => e.after.type = e.before.type

\* C5 witness: a run merged a candidate with empty type onto an entry that had a type.
C5_Witness ==
  /\ lastOp.op = "main"
  /\ \E k \in MergedEntries :
       /\ mergeLog[k].cand.type = ""
       /\ Truthy(mergeLog[k].before.type)
       /\ mergeLog[k].after # mergeLog[k].before

\* C6: on a merge, a candidate field that holds only its structural default
\* (first-of-month date of the folder, chain "Unknown", currency "USD", zero
\* loss, empty type) never replaces a different value stored in the entry.
C6_DefaultsNeverWritten ==
  \A k \in MergedEntries :
    LET e == mergeLog[k]
    IN /\ (e.ov.date = Absent /\ e.art.rd.date = "" /\ Truthy(e.before.date))
            => e.after.date = e.before.date
       /\ (e.ov.chain = Absent /\ e.art.text.chain = "Unknown" /\ Truthy(e.before.chain))
            => e.after.chain = e.before.chain
       /\ (/\ e.ov.lossType = Absent /\ e.ov.loss_type = Absent /\ e.art.rd.loss_type = ""
           /\ e.art.text.lost = 0 /\ e.art.text.loss_type = "USD"
           /\ Truthy(e.before.lossType))
            => e.after.lossType = e.before.lossType
       /\ e.cand.lost = 0 => e.after.Lost = e.before.Lost
       /\ (e.cand.type = "" /\ Truthy(e.before.type)) => e.after.type = e.before.type

\* C7: every Contract of the incident catalog before an operation is in the
\* catalog after it, and the catalog has not become shorter.
C7_NeverDeleted ==
  /\ Len(incidents) >= Len(preIncidents)
  /\ Contracts(preIncidents) \subseteq Contracts(incidents)

\* C7 witness: a run of update_incidents over a catalog that had entries
\* merged onto one of them and appended a new one.
C7_Witness ==
  /\ lastOp.op = "main"
  /\ Len(preIncidents) >= 1
  /\ MergedEntries # {}
  /\ Len(incidents) > Len(preIncidents)

\* C8: after update_incidents without preserve_order the catalog is sorted by
\* date, descending; with preserve_order the entries from before the run keep
\* their places and the entries created in the run follow them.
C8_CatalogOrder ==
  lastOp.op = "main" =>
    IF lastOp.preserve_order
    THEN /\ Len(incidents) >= Len(preIncidents)
         /\ \A i \in 1..Len(preIncidents) : incidents[i].Contract = preIncidents[i].Contract
         /\ SubSeq(incidents, Len(preIncidents) + 1, Len(incidents))
              = [ i \in 1..Cardinality({ k \in 1..Len(mergeLog) : mergeLog[k].fresh }) |->
                    LET fresh == { k \in 1..Len(mergeLog) : mergeLog[k].fresh }
                        k     == CHOOSE x \in fresh :
                                   Cardinality({ y \in fresh : y <= x }) = i
                    IN mergeLog[k].after ]
    ELSE \A i, j \in 1..Len(incidents) :
           i < j => ~ StrLess(incidents[i].date, incidents[j].date)

\* C8 witness: a run without preserve_order put an entry it created before an
\* entry that was in the catalog, which has an earlier date.
C8_Witness ==
  /\ lastOp.op = "main"
  /\ ~ lastOp.preserve_order
  /\ Len(preIncidents) >= 1
  /\ \E k \in 1..Len(mergeLog) :
       /\ mergeLog[k].fresh
       /\ incidents[1] = mergeLog[k].after
  /\ StrLess(incidents[Len(incidents)].date, incidents[1].date)
  /\ incidents[Len(incidents)].Contract \in Contracts(preIncidents)

-----------------------------------------------------------------------------
(* Properties of merge_existing                                            *)

ScalarFields ==
  { "type", "date", "rootCause", "Lost", "POC" }

Range(xs) ==
  { xs[i] : i \in 1..Len(xs) }

FirstIndex(xs, x) ==
  CHOOSE i \in 1..Len(xs) : xs[i] = x /\ \A j \in 1..(i - 1) : xs[j] # x

\* res is xs without repetitions, in the order of first occurrence
IsOrderedUnion(res, xs) ==
  /\ Range(res) = Range(xs)
  /\ \A i, j \in 1..Len(res) :
       i < j => FirstIndex(xs, res[i]) < FirstIndex(xs, res[j])

\* The entry the store held under key k before the run, if any
PrevEntry(k) ==
  IF k \in DictKeys(preRootcause) THEN DictGet(preRootcause, k) ELSE NoEntry

\* The reference merge of newData onto preRootcause, as a relation to the
\* store after the run.
IsReferenceMerge ==
  /\ \A k \in DictKeys(newData) :
       /\ k \in DictKeys(rootcause)
       /\ \A f \in ScalarFields :
            DictGet(rootcause, k)[f] =
              IF DictGet(newData, k)[f] \notin { Absent, "" }
              THEN DictGet(newData, k)[f]
              ELSE PrevEntry(k)[f]
       /\ IsOrderedUnion(DictGet(rootcause, k).images,
                         PrevEntry(k).images \o DictGet(newData, k).images)
  /\ \A k \in DictKeys(preRootcause) \ DictKeys(newData) :
       /\ k \in DictKeys(rootcause)
       /\ DictGet(rootcause, k) = DictGet(preRootcause, k)

\* C9: after a run of build_rootcause_from_md.py the store is the reference
\* merge of the new data onto the store from before: per key of the new data
\* every scalar field is the new value when that is a non-empty string and the
\* previous value otherwise, images is the previous list followed by the new
\* one without repetitions, and the other keys of the store are unchanged.
C9_MergeIsReference ==
  lastOp.op = "build" => IsReferenceMerge

\* C9, with the store's existence taken into account: when rootcause_data.json
\* exists the store after the run is the reference merge; when it does not,
\* the store after the run is the new data as built, empty fields included.
C9_MergeWhenStoreExists ==
  lastOp.op = "build" =>
    IF preRcFile = "missing" THEN rootcause = newData ELSE IsReferenceMerge

\* C9 witness: a run merged onto an existing entry a new entry with an empty
\* type, a POC link and an image the entry already had.
C9_Witness ==
  /\ lastOp.op = "build"
  /\ preRcFile = "json"
  /\ \E k \in DictKeys(newData) \cap DictKeys(preRootcause) :
       /\ DictGet(newData, k).type = ""
       /\ Truthy(DictGet(preRootcause, k).type)
       /\ Truthy(DictGet(newData, k).POC)
       /\ DictGet(rootcause, k).POC # DictGet(preRootcause, k).POC
       /\ Range(DictGet(newData, k).images) \cap Range(DictGet(preRootcause, k).images) # {}
       /\ Len(DictGet(rootcause, k).images) > Len(DictGet(preRootcause, k).images)

-----------------------------------------------------------------------------
(* Properties of the normalizer                                            *)

\* The first row of the table whose label is the reentrancy label
ReentrancyRow ==
  CHOOSE i \in 1..Len(ATTACK_TYPE_MAPPING) :
    /\ ATTACK_TYPE_MAPPING[i][2] = "Reentrancy Attack"
    /\ \A j \in 1..(i - 1) : ATTACK_TYPE_MAPPING[j][2] # "Reentrancy Attack"

\* The rows above it whose pattern is found in s
EarlierRows(s) ==
  { i \in 1..(ReentrancyRow - 1) : re_search(ATTACK_TYPE_MAPPING[i][1], s) }

\* C10: every phrase that contains "reentrancy", in any letter case and with
\* any words around it, normalizes to "Reentrancy Attack".
C10_AlwaysReentrancy ==
  Contains(str_lower(phrase), "reentrancy") => label = "Reentrancy Attack"

\* C10, with the order of the table taken into account: a phrase that contains
\* "reentrancy" in any letter case normalizes to "Reentrancy Attack" when no
\* pattern above the reentrancy rows (access control, logic flaw, precision,
\* validation, flash loan, price manipulation) is found in it, and to the label
\* of the first such pattern otherwise.
C10_ReentrancyUnlessEarlierRow ==
  Contains(str_lower(phrase), "reentrancy") =>
    LET rows == EarlierRows(str_lower(phrase))
    IN IF rows = {}
       THEN label = "Reentrancy Attack"
       ELSE /\ label = ATTACK_TYPE_MAPPING[CHOOSE i \in rows : \A j \in rows : i <= j][2]
            /\ label # "Reentrancy Attack"

\* C10 witness: an upper-case "REENTRANCY" between other words, one of which
\* is a pattern of a row below the reentrancy rows, got the reentrancy label.
C10_Witness ==
  /\ Contains(phrase, "REENTRANCY")
  /\ Contains(phrase, "bug")
  /\ Len(phrase) > Len("REENTRANCY bug")
  /\ label = "Reentrancy Attack"

\* No pattern of the table is found in the lower-cased phrase p
NoPattern(p) ==
  \A i \in 1..Len(ATTACK_TYPE_MAPPING) : ~ re_search(ATTACK_TYPE_MAPPING[i][1], str_lower(p))

\* C11: "Weird New Bug Class" normalizes to itself, a phrase in which no
\* pattern of the table is found is returned title-cased, and the empty input
\* gives "Unknown".
C11_NovelPhraseKept ==
  /\ phrase = "" => label = "Unknown"
  /\ phrase = "Weird New Bug Class" => label = "Weird New Bug Class"
  /\ (phrase # "" /\ NoPattern(phrase)) => label = str_title(phrase)

\* C11, with the table's pattern "bug" and the prefix removal taken into
\* account: the empty input gives "Unknown"; a phrase in which no pattern is
\* found is returned lower-cased, stripped, without one leading "attack",
\* "exploit" or "hack" prefix, and title-cased ("Weird New Class" gives itself,
\* "Hack: Weird" gives "Weird"); "Weird New Bug Class" holds the pattern "bug"
\* and gives "Implementation Bug".
C11_FallbackIsTitleCase ==
  /\ phrase = "" => label = "Unknown"
  /\ (phrase # "" /\ NoPattern(phrase)) =>
       label = str_title(StripDismissivePrefix(str_strip(str_lower(phrase))))
  /\ phrase = "Weird New Class" => label = "Weird New Class"
  /\ phrase = "Hack: Weird" => label = "Weird"
  /\ phrase = "Weird New Bug Class" => label = "Implementation Bug"

\* C11 witness: the phrase "Weird New Class", in which no pattern is found,
\* was normalized to itself.
C11_Witness ==
  /\ phrase = "Weird New Class"
  /\ NoPattern(phrase)
  /\ label = phrase

\* C12: the amount parsed from a loss line is its full number times the
\* magnitude of its suffix and the currency is the normalized trailing token;
\* a text without a number after a loss key gives (0.0, "USD").
C12_CompactNumber ==
  /\ \A l \in LossLines :
       lossText = l.text =>
         /\ IF l.mult = 1 THEN 10 * lossParsed.lost = l.tenths
            ELSE lossParsed.lost = l.tenths * (l.mult \div 10)
         /\ lossParsed.currency = l.cur
  /\ lossText \in NoLossTexts => lossParsed = [ lost |-> 0, currency |-> "USD" ]

\* The section holds a forge-style invocation on the file f.
ForgeNamesFile(s, f) ==
  LET c == str_lower(ForgeContract(s))
  IN c = str_lower(f) \/ EndsWith(c, "/" \o str_lower(f))

\* C13: when exactly one section of the README holds the target file's name
\* inside a forge-style test invocation, that section is the one selected for
\* the file, wherever it stands among the sections.
C13_ForgeSectionSelected ==
  \A i \in 1..Len(readme) :
    ( /\ ForgeNamesFile(readme[i], target)
      /\ \A j \in 1..Len(readme) : j # i => ~ ForgeNamesFile(readme[j], target) )
    => located.idx = i - 1

\* C14: the record made for src/test/2025-07/foo_exp.sol, whose content has
\* "@Type: Price Manipulation", "Total Lost: 1.2M USD" and a createSelectFork of
\* arbitrum, with no README section and no override, has the date 20250701,
\* the name foo, the type Price Manipulation, the loss 1200000.0 USD, its own
\* path as the contract and the chain Arbitrum.
C14_EndToEndDefaults ==
  \A k \in 1..Len(mergeLog) :
    LET e == mergeLog[k]
    IN (e.art = ArtFoo /\ TextsAsParsed /\ e.fresh /\ ~ OvPresent(e.ov)) =>
         e.after = [ date     |-> "20250701",
                     name     |-> "foo",
                     type     |-> "Price Manipulation",
                     Lost     |-> 1200000,
                     lossType |-> "USD",
                     Contract |-> "src/test/2025-07/foo_exp.sol",
                     chain    |-> "Arbitrum" ]

\* C15: a run of update_data.py or of the changelog script whose git diff
\* succeeded does not raise, whatever the state of the override file, of
\* incidents.json and of rootcause_data.json; and merge_existing takes a
\* rootcause_data.json that is not JSON for an empty one.
C15_NeverFatal ==
  /\ lastOp.op \in { "main", "diff" } => ~ raised
  /\ (lastOp.op = "build" /\ ~ raised /\ preRcFile = "garbage") =>
       rootcause = merge_existing(newData, << >>, "json")

\* C16: a run of update_data.py that finds no directory source/src/test, and
\* a run of build_rootcause_from_md.py that finds no directory ./root, ends
\* in an error and leaves incidents.json and rootcause_data.json as they were.
C16_MissingRootAborts ==
  /\ (lastOp.op = "main" /\ ~ srcRoot) =>
       /\ raised
       /\ incidents = preIncidents
       /\ rootcause = preRootcause
       /\ rcFile = preRcFile
  /\ (lastOp.op = "build" /\ raised) =>
       /\ incidents = preIncidents
       /\ rootcause = preRootcause
       /\ rcFile = preRcFile

\* C17: in update_incidents a loss read from the artifact's content is kept
\* when the README gives the loss 0, the loss so far is kept when the override
\* gives the loss 0, and the loss of an existing record is kept when the
\* candidate's loss is 0.
C17_LossPrecedence ==
  \A k \in 1..Len(mergeLog) :
    LET e == mergeLog[k]
    IN /\ (e.art.text.lost # 0 /\ e.art.rd.lost = 0) => e.parsed.lost = e.art.text.lost
       /\ (e.parsed.lost # 0 /\ e.ov.Lost = 0) => e.cand.lost = e.parsed.lost
       /\ (~ e.fresh /\ e.before.Lost # 0 /\ e.cand.lost = 0) => e.after.Lost = e.before.Lost

\* C18: after a run of main() every incident of the catalog has a root-cause
\* entry under its display name whose Contract is the URL of the incident's
\* contract path.
C18_EntryPerIncident ==
  (lastOp.op = "main" /\ ~ raised) =>
    \A i \in 1..Len(incidents) :
      \E j \in 1..Len(rootcause) :
        /\ rootcause[j].k = incidents[i].name
        /\ rootcause[j].v.Contract = GITHUB_BASE \o incidents[i].Contract

\* The blocks read in the two well-formed groups, and the records they are
\* to give.
BlockFoo ==
  BlockOf(added_lines(GroupFoo))

BlockBar ==
  BlockOf(added_lines(GroupBar))

RecordOf(b) ==
  IF b = BlockFoo
  THEN [ date |-> "20250709", name |-> "foo", type |-> "Reentrancy Attack", Lost |-> 5000,
         lossType |-> "ETH", Contract |-> "src/test/2025-07/foo_exp.sol", chain |-> Absent ]
  ELSE [ date |-> "20250705", name |-> "bar", type |-> "Flash Loan Attack", Lost |-> 100,
         lossType |-> "USDC", Contract |-> "src/test/2025-07/bar_exp.sol", chain |-> Absent ]

\* The records of the well-formed blocks of a batch that the catalog did not
\* hold, in the order of the batch.
RECURSIVE NewRecords(_, _)
NewRecords(blocks, held) ==
  IF blocks = << >> THEN << >>
  ELSE (IF Head(blocks) \in { BlockFoo, BlockBar } /\ RecordOf(Head(blocks)) \notin held
        THEN << RecordOf(Head(blocks)) >> ELSE << >>)
         \o NewRecords(Tail(blocks), held)

\* C19: a changelog run that read the blocks of a diff ends without raising,
\* and the catalog after it is the catalog before it followed by the records
\* of the well-formed blocks it did not hold yet, in their order: a malformed
\* block adds nothing and takes nothing from the blocks before and after it.
C19_MalformedSkipped ==
  (lastOp.op = "diff" /\ batch # << >>) =>
    /\ ~ raised
    /\ incidents = preIncidents \o NewRecords(batch, Range(preIncidents))

\* A run read a malformed block, then a well-formed one, then a malformed
\* one again, and the record of the well-formed one is new in the catalog.
C19_Witness ==
  /\ lastOp.op = "diff"
  /\ \E i, j, k \in 1..Len(batch) :
       /\ i < j /\ j < k
       /\ batch[i] \notin { BlockFoo, BlockBar }
       /\ batch[j] \in { BlockFoo, BlockBar }
       /\ batch[k] \notin { BlockFoo, BlockBar }
       /\ RecordOf(batch[j]) \in Range(incidents) \ Range(preIncidents)

\* C20: a changelog run whose git diff fails ends with the exception, and it
\* leaves incidents.json and the commit in the tracker file as they were, so
\* the next run diffs from the same commit.
C20_DiffFailureAborts ==
  [][ lastOp'.op = "diff_failed" =>
        /\ raised'
        /\ incidents' = incidents
        /\ tracker' = tracker ]_vars

\* A run failed in git diff after an earlier run had recorded a commit and
\* added records.
C20_Witness ==
  /\ lastOp.op = "diff_failed"
  /\ raised
  /\ tracker # ""
  /\ incidents # << >>

\* The entry new carries the narrative of the entry old: its rootCause is
\* that text, or that text with something appended after it (line 677).
KeepsNarrative(new, old) ==
  /\ Truthy(new.rootCause)
  /\ StartsWith(new.rootCause, str_rstrip(old.rootCause))

\* C21: after a run of main() every entry of rootcause_data.json that had a
\* non-empty rootCause before the run is still in the store, under some key,
\* with that text intact.
C21_NarrativeKept ==
  (lastOp.op = "main" /\ ~ raised) =>
    \A i \in 1..Len(preRootcause) :
      Truthy(preRootcause[i].v.rootCause) =>
        \E j \in 1..Len(rootcause) : KeepsNarrative(rootcause[j].v, preRootcause[i].v)

\* The number of places of s at which lit stands
Occurrences(s, lit) ==
  Cardinality({ i \in 1..(Len(s) - Len(lit) + 1) : SubSeq(s, i, i + Len(lit) - 1) = lit })

\* C22: while the override file stays the same, the rootCause of every entry
\* of rootcause_data.json holds the line "Link reference(s):" at most once
\* and every link of the overrides at most once.
C22_LinksOnce ==
  \A j \in 1..Len(rootcause) :
    LET text == rootcause[j].v.rootCause
    IN Truthy(text) =>
         /\ Occurrences(text, "Link reference(s):") <= 1
         /\ \A rel \in DOMAIN overrides :
              \A n \in 1..Len(overrides[rel].links) :
                Occurrences(text, "- " \o overrides[rel].links[n]) <= 1

\* C23: after a run of main() that did not raise, rootcause_data.json holds
\* the mapping update_rootcause had in memory at its end.
C23_ChangesPersisted ==
  (lastOp.op = "main" /\ ~ raised) =>
    rootcause = update_rootcause(incidents, preRootcause, overrides).data

\* The lines of the README section of ArtBaz that the locator reads: the
\* file name and the forge invocation
SecBaz ==
  "baz_exp.sol\n" \o SecForgeFoo

\* The contract path written out in ArtBaz is the one the section locator
\* takes from that section.
BazAsLocated ==
  LET found == locate_section(<< SecBaz >>, "baz_exp.sol", "src/test/2025-06/baz_exp.sol")
  IN /\ found.idx = 0
     /\ found.contract = lstrip_dot_slash(ArtBaz.rd.contract)

\* C24: the record update_incidents makes or merges for an artifact has a
\* Contract that names the file of that artifact.
C24_KeyedByOwnPath ==
  \A k \in 1..Len(mergeLog) :
    LET e == mergeLog[k]
    IN BazAsLocated => EndsWith(e.after.Contract, "/" \o e.art.f)

\* C25: the records a changelog run appended differ from every other record
\* of the catalog; and after a run that completed the tracker holds a commit,
\* and a run whose current commit is that commit leaves the catalog as it is,
\* whatever the diff.
C25_NoIdenticalRecord ==
  (lastOp.op = "diff" /\ ~ raised) =>
    /\ \A i \in (Len(preIncidents) + 1)..Len(incidents) :
         \A j \in 1..Len(incidents) : i # j => incidents[i] # incidents[j]
    /\ tracker \in Commits
    /\ \A d \in Diffs :
         changelog_run(incidents, incFile, tracker, tracker, TRUE, DiffBlocks[d]).incidents
           = incidents

====
